---------------------------- MODULE Spec2Model ----------------------------
(***************************************************************************)
(* CloudDrop: the crypto envelope (crypto.js), the signaling hub (room.ts) *)
(* and the per-peer transfer engine (webrtc.js, app.js).                   *)
(*                                                                         *)
(* The module holds several state machines, one per component, each with   *)
(* its own variables, initial predicate and specification.  A component's  *)
(* actions leave the variables of the other components unchanged.          *)
(***************************************************************************)
EXTENDS Integers, Sequences, FiniteSets, TLC

(***************************************************************************)
(* Bounds of the model.                                                    *)
(***************************************************************************)
MaxPlainLen == 2      \* longest plaintext chunk, in bytes
MaxByte == 1          \* plaintext bytes range over 0..MaxByte
MaxIvSeed == 2        \* distinct random IVs getRandomValues can return
NumSessions == 2      \* WebSocket sessions the room accepts
MaxPeerIds == 2       \* peer ids crypto.randomUUID() hands out
NumSetReq == 2        \* set-password requests the room receives
MaxChunks == 1        \* chunks in a file
MaxOffers == 2        \* createOffer calls per device
MaxCalls == 2         \* ensureConnection calls about the peer
MaxFileSize == 5      \* bytes in a file that is sent
CHUNK_SIZE == 2       \* bytes in a chunk, scaled down from 64 * 1024
WINDOW_SIZE == 2      \* unacknowledged chunks in flight, scaled down from 10
MAX_CHUNK_RETRIES == 1 \* retransmissions of one chunk, scaled down from 3
MaxStreamChunks == 2  \* chunks of the file that is received
MaxCopies == 2        \* times one relay chunk frame reaches the receiver
MaxConnects == 2      \* connectWebSocket calls of the client
MaxPasswordLen == 6   \* longest room password, in characters
MaxPcs == 2           \* RTCPeerConnections created for the peer
MaxRelayEntries == 2  \* entries into relay mode by a race or by relay data
P2P_RETRY_MAX_ATTEMPTS == 2 \* P2P_RETRY.MAX_ATTEMPTS (10), scaled down
MaxExchanges == 3     \* calls of _exchangeKeysViaSignaling
NumSenders == 2       \* peers that send file requests to the device
MaxRequests == 2      \* file requests of one peer
MaxJoins == 3         \* join frames the room handles

(***************************************************************************)
(* Program constants.                                                      *)
(***************************************************************************)
IvLen == 12           \* new Uint8Array(12): AES-GCM IV length
CloseRequired == 4001  \* server.close(4001, 'PASSWORD_REQUIRED')
CloseIncorrect == 4002 \* server.close(4002, 'PASSWORD_INCORRECT')
MAX_ICE_RESTARTS == 2
ACK_BATCH_SIZE == 5    \* RELAY.ACK_BATCH_SIZE
PASSWORD_MIN_LENGTH == 6 \* ROOM.PASSWORD_MIN_LENGTH

None == "none"

VARIABLES
    \* ---- crypto envelope: one chunk from a sender to a receiver ----
    encPlain,         \* the plaintext chunk given to encryptChunk
    sndPeerKey,       \* sender's sharedSecrets.get(peerId), or None
    rcvPeerKey,       \* receiver's sharedSecrets.get(peerId), or None
    sndRoomKey,       \* sender's roomKey (None: roomPasswordSet = false)
    rcvRoomKey,       \* receiver's roomKey (None: roomPasswordSet = false)
    encWire,          \* the framed chunk on the wire
    encOut,           \* what decryptChunk returned or threw
    encPc,            \* "plain" -> "sent" -> "received"
    \* ---- signaling hub: one Room durable object ----
    passwordHash,     \* Room.passwordHash (None = no password)
    wsState,          \* per session: "unused", "open", "closing" (the hub
                      \* called close()), "closed"
    attach,           \* per session: attachment.id, or None (gone with the socket)
    closeCode,        \* per session: code the hub closed it with, or 0
    nextId,           \* how many ids crypto.randomUUID() has handed out, plus 1
    spCount,          \* set-password requests the room has begun to handle
    spAwaiting,       \* how many of them are suspended at await request.json()
    out,              \* frames the hub sent while it ran its latest handler
    \* ---- one device's WebRTCManager and app, about one remote peer ----
    relayMode,          \* relayMode.get(peerId)
    dataChannelOpen,    \* dataChannels.get(peerId) is open
    hasSharedSecret,    \* cryptoManager.hasSharedSecret(peerId)
    keyExchangeSent,    \* _keyExchangeSent.has(peerId)
    pendingFileRequest, \* app.pendingFileRequest, or Nil
    incomingTransfers,  \* incomingTransfers.get(peerId), or Nil
    activeTransfers,    \* per fileId: "none", "receive" or "cancelled"
    accepted,           \* fileIds the user accepted a file-request for
    cancelledIds,       \* fileIds whose incoming transfer a file-cancel
                        \* removed since they were last accepted
    ending,             \* the relay file-end handler suspended while it waits
                        \* for missing chunks, or Nil
    textWaiting,        \* the text of a _sendTextViaRelay suspended while it
                        \* waits for the key, or Nil
    emit,               \* what the device's latest handler sent: frames to the
                        \* hub, frames on the data channel, observer calls
    hubAlt,             \* the frames to the hub that handler would have sent
                        \* had the text it was given been another text
    \* ---- negotiation between two devices, each about the other ----
    connections,        \* per device: connections.get(peerId), or Nil
    makingOffer,        \* per device: makingOffer.get(peerId)
    ignoreOffer,        \* per device: ignoreOffer.get(peerId)
    dataChannels,       \* per device: readyState of dataChannels.get(peerId),
                        \* or "none"
    sharedSecrets,      \* per device: the peer's key is imported
    offering,           \* per device: where its createOffer call stands
    answering,          \* per device: a handleOffer call is about to answer
    offersMade,         \* per device: createOffer calls so far
    net,                \* per device: frames on their way to it, in order
    glare,              \* both devices had an offer in flight while both
                        \* were in have-local-offer with makingOffer false
    \* ---- connection racing of one device about one peer ----
    pcExists,           \* connections.has(peerId)
    creating,           \* createConnection is awaiting fetchIceServers
    pendingConnections, \* pendingConnections.get(peerId): None, the promise
                        \* of createConnection or the promise of a race
    connectionRacing,   \* the race connectionRacing.get(peerId) belongs to, or 0
    candidateTypes,     \* candidateTypes.get(peerId)
    gatheringComplete,  \* onicecandidate reported the end of gathering
    connectionQuality,  \* connectionQuality.get(peerId), or Nil
    iceConnectionState, \* pc.iceConnectionState
    iceRestartCounts,   \* iceRestartCounts.get(peerId) || 0
    channelPending,     \* dataChannels.get(peerId) is there and connecting
    call,               \* per ensureConnection call: where it stands
    awaits,             \* per call: the pendingConnections entry it awaits
    attempt,            \* per race: where _attemptP2PConnection stands
    racingState,        \* per race: its racingState object
    racePromise,        \* per race: "unset", "pending" or its result
    fallbackTimer,      \* per race: "unset", "armed", "fired" or "cleared"
    ultimateTimer,      \* per race: likewise
    returnedOk,         \* per call: it returned in relay mode or with an
                        \* open channel and a key
    \* ---- sending one file to one peer ----
    sender,             \* where sendFile and the sender it calls stand
    fileSize,           \* file.size
    viaRelay,           \* isRelayMode of sendFile
    sendOffset,         \* offset of the send loop
    sendIndex,          \* chunkIndex of the send loop
    transferState,      \* the object the sender registered in activeTransfers
    registered,         \* activeTransfers.has(fileId)
    pendingFileRequests, \* pendingFileRequests.has(fileId)
    requestTimer,       \* the timeout of _requestFileTransfer is armed
    requestOutcomes,    \* the calls that settled the promise of
                        \* _requestFileTransfer, in order
    ackTimedOut,        \* Date.now() - lastAckTime > ACK_TIMEOUT
    recentlySent,       \* indices of the chunks sent after lastAckTime whose
                        \* sentAt is less than ACK_TIMEOUT ago
    wire,               \* the frames sent for this file, in order
    arrived,            \* indices of the chunks that reached the peer
    cancelAt,           \* Len(wire) when the user cancelled, or -1
    \* ---- receiving a chunk stream ----
    rcvRelay,           \* the stream comes through the hub
    rcvTotal,           \* totalChunks of the file the sender streams
    rcvPhase,           \* "idle", "start", "chunks" or "ended": what the sender sent
    rcvSent,            \* chunks the direct channel has delivered
    rcvCopies,          \* per index, relay chunk frames that reached the receiver
    rcvTransfer,        \* incomingTransfers.get(peerId), or Nil
    decryptJobs,        \* chunk indices whose decryptChunk has not returned
    graceWait,          \* the relay file-end handler waits for missing chunks
    delivered,          \* what onFileReceived was called with, or Nil
    decryptFailed,      \* a decryptChunk threw while the transfer was in progress
    placedTwice,        \* two copies of one relay chunk were both decrypted and placed
    rcvAcks,            \* chunk indices acknowledged to the sender
    \* ---- the client's state about one peer ----
    ws,                 \* the client's WebSocket: "connecting", "open", "closed", "rejected"
    peers,              \* CloudDrop.peers has the peer
    peerLeft,           \* peer-left was handled for the peer
    webrtc,             \* the WebRTCManagers made so far; the last is this.webrtc
    peerSecret,         \* cryptoManager.sharedSecrets has the peer
    \* ---- prewarming ----
    prewarm,            \* "idle", "scheduled", "skipped", "racing", "p2p" or "failed"
    \* ---- the room password on the client ----
    roomOp,             \* the createSecureRoom or joinSecureRoom in progress
    clientRoomKey,      \* cryptoManager.roomKey, or Nil
    isSecureRoom,       \* CloudDrop.isSecureRoom
    roomResult,         \* what the last call returned: "true", "false", or "none"
    \* ---- ICE recovery of one device about one peer ----
    peerPresent,        \* the peer has not left the room
    peerConn,           \* connections.get(peerId), or Nil
    pcsCreated,         \* connections created so far; the live one is the last
    stateEvents,        \* handlers the browser is about to call, in order
    p2pPossible,        \* connectionQuality.get(peerId)?.p2pPossible
    directOpen,         \* dataChannels.get(peerId) is open
    restartCount,       \* iceRestartCounts.get(peerId) || 0
    restartsPending,    \* _attemptIceRestart calls in their delay, by connection
    offersSinceReset,   \* ICE-restart offers sent since the counter was last reset
    offersSinceConnect, \* ICE-restart offers sent since ICE last connected
    disconnectedTimers, \* disconnectedTimers.get(peerId): a timer id, or 0
    disconnectedPending,\* the disconnected timers that are pending
    p2pRetryTimers,     \* p2pRetryTimers.get(peerId): a timer id, or 0
    retryPending,       \* the background retry timers that are pending
    p2pRetryAttempts,   \* p2pRetryAttempts.get(peerId) || 0
    inRelayMode,        \* relayMode.get(peerId) of this device
    commitAttempts,     \* reconnect attempts since relay mode was last entered
    budgetExhausted,    \* the retry loop stopped at P2P_RETRY_MAX_ATTEMPTS
    reconnects,         \* _attemptSilentP2PReconnect calls waiting, by connection
    relayEntries,       \* entries into relay mode by a race or by relay data
    \* failedCommit: ICE failed with the restarts exhausted or P2P impossible;
    \* no direct path came up and the peer did not leave since
    failedCommit,
    \* ---- the key exchange over signaling ----
    kxSecret,           \* per device: the public key its shared secret was made
                        \* from, or None
    kxSent,             \* per device: _keyExchangeSent.has(peerId)
    kxNet,              \* per device: the key-exchange frames on their way to it
    kxImporting,        \* per device: the keys its handlers are importing
    kxReplying,         \* per device: handlers exporting the key they send back
    kxCall,             \* per device: where _exchangeKeysViaSignaling stands
    kxStarts,           \* calls of _exchangeKeysViaSignaling so far
    \* ---- the file requests a device receives ----
    rqReceived,         \* the file-request frames handled so far
    rqPending,          \* app.pendingFileRequest, or Nil
    rqIncoming,         \* per peer: the fileId in incomingTransfers, or None
    rqResponses,        \* the file-response frames sent
    \* ---- the members of one room over time ----
    mbHash,             \* Room.passwordHash (None = no password)
    mbSetBegun,         \* set-password requests the room has begun to handle
    mbSetAwaiting,      \* how many of them are suspended at await request.json()
    mbState,            \* per session: "unused", "open", "closing", "closed"
    mbAttach,           \* per session: attachment.id, or None
    mbPresented,        \* per session: the X-Room-Password-Hash of its upgrade
    mbKnown,            \* per session: the peer ids its client holds as present
    mbJoins             \* join frames handled so far

cryptoVars == <<encPlain, sndPeerKey, rcvPeerKey, sndRoomKey, rcvRoomKey,
                encWire, encOut, encPc>>

hubVars == <<passwordHash, wsState, attach, closeCode, nextId, spCount, spAwaiting, out>>

linkVars == <<relayMode, dataChannelOpen, hasSharedSecret, keyExchangeSent>>

transferVars == <<pendingFileRequest, incomingTransfers, activeTransfers, accepted,
                  cancelledIds, ending, textWaiting, emit, hubAlt>>

negVars == <<connections, makingOffer, ignoreOffer, dataChannels, sharedSecrets,
             offering, answering, offersMade, net, glare>>

raceVars == <<pcExists, creating, pendingConnections, connectionRacing,
              candidateTypes, gatheringComplete, connectionQuality,
              iceConnectionState, iceRestartCounts, channelPending, call, awaits,
              attempt, racingState, racePromise, fallbackTimer, ultimateTimer,
              returnedOk>>

sendVars == <<sender, fileSize, viaRelay, sendOffset, sendIndex, transferState,
              registered, pendingFileRequests, requestTimer, requestOutcomes,
              ackTimedOut, recentlySent, wire, arrived, cancelAt>>

recvVars == <<rcvRelay, rcvTotal, rcvPhase, rcvSent, rcvCopies, rcvTransfer, decryptJobs,
              graceWait, delivered, decryptFailed, placedTwice, rcvAcks>>

lifeVars == <<ws, peers, peerLeft, webrtc, peerSecret>>

prewarmVars == <<prewarm>>

roomVars == <<roomOp, clientRoomKey, isSecureRoom, roomResult>>

iceVars == <<peerPresent, peerConn, pcsCreated, stateEvents, p2pPossible, directOpen,
             restartCount, restartsPending, offersSinceReset, offersSinceConnect,
             disconnectedTimers, disconnectedPending, p2pRetryTimers, retryPending,
             p2pRetryAttempts, inRelayMode, commitAttempts, budgetExhausted,
             reconnects, relayEntries, failedCommit>>

keysVars == <<kxSecret, kxSent, kxNet, kxImporting, kxReplying, kxCall, kxStarts>>

inboxVars == <<rqReceived, rqPending, rqIncoming, rqResponses>>

membersVars == <<mbHash, mbSetBegun, mbSetAwaiting, mbState, mbAttach, mbPresented,
                 mbKnown, mbJoins>>

vars == <<cryptoVars, hubVars, linkVars, transferVars, negVars, raceVars, sendVars,
          recvVars, lifeVars, prewarmVars, roomVars, iceVars, keysVars, inboxVars,
          membersVars>>

notCrypto == <<hubVars, linkVars, transferVars, negVars, raceVars, sendVars, recvVars,
               lifeVars, prewarmVars, roomVars, iceVars, keysVars, inboxVars,
               membersVars>>
notHub == <<cryptoVars, linkVars, transferVars, negVars, raceVars, sendVars, recvVars,
            lifeVars, prewarmVars, roomVars, iceVars, keysVars, inboxVars, membersVars>>
notTransfer == <<cryptoVars, hubVars, negVars, raceVars, sendVars, recvVars, lifeVars,
                 prewarmVars, roomVars, iceVars, keysVars, inboxVars, membersVars>>
notNeg == <<cryptoVars, hubVars, linkVars, transferVars, raceVars, sendVars, recvVars,
            lifeVars, prewarmVars, roomVars, iceVars, keysVars, inboxVars, membersVars>>
notRace == <<cryptoVars, hubVars, transferVars, negVars, sendVars, recvVars, lifeVars,
             prewarmVars, roomVars, iceVars, keysVars, inboxVars, membersVars>>
notSend == <<cryptoVars, hubVars, linkVars, transferVars, negVars, raceVars, recvVars,
             lifeVars, prewarmVars, roomVars, iceVars, keysVars, inboxVars,
             membersVars>>
notRecv == <<cryptoVars, hubVars, linkVars, transferVars, negVars, raceVars, sendVars,
             lifeVars, prewarmVars, roomVars, iceVars, keysVars, inboxVars,
             membersVars>>
notLife == <<cryptoVars, hubVars, linkVars, transferVars, negVars, raceVars, sendVars,
             recvVars, prewarmVars, roomVars, iceVars, keysVars, inboxVars,
             membersVars>>
notPrewarm == <<cryptoVars, hubVars, transferVars, negVars, sendVars, recvVars,
                lifeVars, roomVars, iceVars, keysVars, inboxVars, membersVars>>
notRoom == <<cryptoVars, hubVars, linkVars, transferVars, negVars, raceVars, sendVars,
             recvVars, lifeVars, prewarmVars, iceVars, keysVars, inboxVars,
             membersVars>>
notIce == <<cryptoVars, hubVars, linkVars, transferVars, negVars, raceVars, sendVars,
            recvVars, lifeVars, prewarmVars, roomVars, keysVars, inboxVars,
            membersVars>>
notKeys == <<cryptoVars, hubVars, linkVars, transferVars, negVars, raceVars, sendVars,
             recvVars, lifeVars, prewarmVars, roomVars, iceVars, inboxVars,
             membersVars>>
notInbox == <<cryptoVars, hubVars, linkVars, transferVars, negVars, raceVars, sendVars,
              recvVars, lifeVars, prewarmVars, roomVars, iceVars, keysVars,
              membersVars>>
notMembers == <<cryptoVars, hubVars, linkVars, transferVars, negVars, raceVars,
                sendVars, recvVars, lifeVars, prewarmVars, roomVars, iceVars, keysVars,
                inboxVars>>

(***************************************************************************)
(* Byte strings.  A byte is a record so that plaintext bytes and sealed    *)
(* AES-GCM output can sit in the same array, as in a Uint8Array.           *)
(***************************************************************************)
Byte(n) == [b |-> n]

RECURSIVE SeqsUpTo(_, _)
SeqsUpTo(S, n) ==
    IF n = 0 THEN {<<>>}
    ELSE LET shorter == SeqsUpTo(S, n - 1)
         IN  shorter \cup {Append(s, x) : s \in {t \in shorter : Len(t) = n - 1}, x \in S}

Plaintexts == SeqsUpTo({Byte(n) : n \in 0..MaxByte}, MaxPlainLen)

\* crypto.getRandomValues(new Uint8Array(12))
Ivs == {[i \in 1..IvLen |-> Byte(s)] : s \in 1..MaxIvSeed}

PeerKeys == {"pk1", "pk2"}
RoomKeys == {"rk1", "rk2"}

\* dataArray.slice(from, to) with 0-based from and exclusive to
Slice(a, from, to) ==
    SubSeq(a, from + 1, IF to > Len(a) THEN Len(a) ELSE to)

Ok(data) == [ok |-> TRUE, err |-> "", data |-> data]
Threw(err) == [ok |-> FALSE, err |-> err, data |-> <<>>]

\* crypto.subtle.encrypt({name: 'AES-GCM', iv}, key, data): an authenticated
\* blob that only the same key and IV open.
AesGcmEncrypt(key, iv, data) == <<[key |-> key, iv |-> iv, pt |-> data]>>

\* crypto.subtle.decrypt: throws when the tag does not verify.
AesGcmDecrypt(key, iv, ct) ==
    IF  /\ Len(ct) = 1
        /\ DOMAIN ct[1] = {"key", "iv", "pt"}
        /\ ct[1].key = key
        /\ ct[1].iv = iv
    THEN Ok(ct[1].pt)
    ELSE Threw("DecryptionFailed")

\* CryptoManager.hasRoomPassword
hasRoomPassword(roomKey) == roomKey # None

\* CryptoManager.encryptWithRoomKey
encryptWithRoomKey(roomKey, iv, data) ==
    IF ~hasRoomPassword(roomKey)
    THEN [encrypted |-> data, iv |-> <<>>]
    ELSE [encrypted |-> AesGcmEncrypt(roomKey, iv, data), iv |-> iv]

\* CryptoManager.decryptWithRoomKey
decryptWithRoomKey(roomKey, encryptedData, iv) ==
    IF ~hasRoomPassword(roomKey) THEN Ok(encryptedData)
    ELSE IF iv = <<>> THEN Threw("IV is required for room key decryption")
    ELSE AesGcmDecrypt(roomKey, iv, encryptedData)

\* CryptoManager.encrypt
encrypt(peerKey, iv, data) ==
    IF peerKey = None THEN Threw("NoSharedKey")
    ELSE Ok(AesGcmEncrypt(peerKey, iv, data))

\* CryptoManager.decrypt
decrypt(peerKey, encryptedData, iv) ==
    IF peerKey = None THEN Threw("NoSharedKey")
    ELSE AesGcmDecrypt(peerKey, iv, encryptedData)

\* CryptoManager.encryptChunk: [room_iv_length][room_iv][peer_iv][encrypted]
encryptChunk(peerKey, roomKey, roomIvDrawn, peerIv, chunk) ==
    LET roomEncrypted == encryptWithRoomKey(roomKey, roomIvDrawn, chunk)
        data   == IF hasRoomPassword(roomKey) THEN roomEncrypted.encrypted ELSE chunk
        roomIv == IF hasRoomPassword(roomKey) THEN roomEncrypted.iv ELSE <<>>
        layer2 == encrypt(peerKey, peerIv, data)
    IN  IF ~layer2.ok THEN layer2
        ELSE Ok(<<Byte(Len(roomIv))>> \o roomIv \o peerIv \o layer2.data)

\* decryptChunk reading the peer IV at a fixed offset, as if no room IV
\* were ever framed
decryptChunkFixedOffset(peerKey, roomKey, dataArray) ==
    LET roomIvLength == dataArray[1].b
        roomIv  == IF roomIvLength > 0 THEN Slice(dataArray, 1, 1 + roomIvLength) ELSE <<>>
        peerIv  == Slice(dataArray, 1, 1 + IvLen)
        encrypted == Slice(dataArray, 1 + IvLen, Len(dataArray))
        decrypted == decrypt(peerKey, encrypted, peerIv)
    IN  IF ~decrypted.ok THEN decrypted
        ELSE IF hasRoomPassword(roomKey) /\ roomIv # <<>>
             THEN decryptWithRoomKey(roomKey, decrypted.data, roomIv)
             ELSE decrypted

\* CryptoManager.decryptChunk
decryptChunk(peerKey, roomKey, dataArray) ==
    LET roomIvLength == dataArray[1].b
        roomIv  == IF roomIvLength > 0 THEN Slice(dataArray, 1, 1 + roomIvLength) ELSE <<>>
        offset  == IF roomIvLength > 0 THEN 1 + roomIvLength ELSE 1
        peerIv  == Slice(dataArray, offset, offset + IvLen)
        encrypted == Slice(dataArray, offset + IvLen, Len(dataArray))
        decrypted == decrypt(peerKey, encrypted, peerIv)
    IN  IF ~decrypted.ok THEN decrypted
        ELSE IF hasRoomPassword(roomKey) /\ roomIv # <<>>
             THEN decryptWithRoomKey(roomKey, decrypted.data, roomIv)
             ELSE decrypted

(***************************************************************************)
(* Crypto envelope: a chunk is framed by the sender and opened by the      *)
(* receiver.                                                               *)
(***************************************************************************)
InitCryptoIdle ==
    /\ encPlain = <<>>
    /\ sndPeerKey = None /\ rcvPeerKey = None
    /\ sndRoomKey = None /\ rcvRoomKey = None
    /\ encWire = <<>>
    /\ encOut = Threw("")
    /\ encPc = "idle"

\* the sender runs encryptChunk(peerId, chunk)
EncryptChunk ==
    /\ encPc = "plain"
    /\ \E roomIv \in Ivs, peerIv \in Ivs :
         LET r == encryptChunk(sndPeerKey, sndRoomKey, roomIv, peerIv, encPlain)
         IN  IF r.ok
             THEN /\ encWire' = r.data
                  /\ encPc' = "sent"
                  /\ encOut' = encOut
             ELSE /\ encWire' = encWire
                  /\ encPc' = "sendFailed"
                  /\ encOut' = r
    /\ UNCHANGED <<encPlain, sndPeerKey, rcvPeerKey, sndRoomKey, rcvRoomKey>>
    /\ UNCHANGED notCrypto

\* the receiver runs decryptChunk(peerId, data) on the frame as sent
DecryptChunk ==
    /\ encPc = "sent"
    /\ encOut' = decryptChunk(rcvPeerKey, rcvRoomKey, encWire)
    /\ encPc' = "received"
    /\ UNCHANGED <<encPlain, sndPeerKey, rcvPeerKey, sndRoomKey, rcvRoomKey, encWire>>
    /\ UNCHANGED notCrypto

NextCrypto == EncryptChunk \/ DecryptChunk

(***************************************************************************)
(* Signaling hub (room.ts).                                                *)
(***************************************************************************)
Sess == 1..NumSessions
\* crypto.randomUUID(): the n-th id the room draws; ids are strings
randomUUID(n) == ToString(n)

PeerIds == {randomUUID(n) : n \in 1..MaxPeerIds}
Hashes == {"h1", "h2"}

InitHubIdle ==
    /\ passwordHash = None
    /\ wsState = [s \in Sess |-> "unused"]
    /\ attach = [s \in Sess |-> None]
    /\ closeCode = [s \in Sess |-> 0]
    /\ nextId = 1
    /\ spCount = 0
    /\ spAwaiting = 0
    /\ out = {}

\* this.state.getWebSockets(): the accepted sockets not yet closed
getWebSockets == {s \in Sess : wsState[s] \in {"open", "closing"}}

\* ws.send delivers only on a socket the hub has not closed
Delivers(s) == wsState[s] = "open"

\* Room.getActivePeers: attachment with an id and readyState OPEN
getActivePeers == {s \in getWebSockets : attach[s] # None /\ wsState[s] = "open"}

\* Room.getPeerIdFromWs
getPeerIdFromWs(s) == attach[s]

\* Room.sendToPeer without the attachment.id === targetPeerId test
sendToPeerAnyAttached(targetPeerId) ==
    {s \in getWebSockets : attach[s] # None /\ Delivers(s)}

\* Room.sendToPeer: the sessions the frame is delivered to
sendToPeer(targetPeerId) ==
    {s \in getWebSockets : attach[s] # None /\ attach[s] = targetPeerId /\ Delivers(s)}

\* the from field of a forwarded frame: from: fromPeerId
fromField(s, msgFrom) == getPeerIdFromWs(s)

\* Room.broadcast: the sessions a broadcast frame is delivered to
broadcast(excludePeerId) ==
    {s \in getWebSockets : attach[s] # None /\ attach[s] # excludePeerId /\ Delivers(s)}

\* the response of Room.handleSetPassword
Response(success) == [kind |-> "response", success |-> success]

\* Room.handleSetPassword up to its await request.json()
SetPasswordBegin ==
    /\ spCount < NumSetReq
    /\ spCount' = spCount + 1
    /\ IF passwordHash # None
       THEN /\ spAwaiting' = spAwaiting
            /\ out' = {Response(FALSE)}
       ELSE /\ spAwaiting' = spAwaiting + 1
            /\ out' = {}
    /\ UNCHANGED <<passwordHash, wsState, attach, closeCode, nextId>>
    /\ UNCHANGED notHub

\* Room.handleSetPassword from the resumption after await request.json()
SetPasswordFinish ==
    /\ spAwaiting > 0
    /\ spAwaiting' = spAwaiting - 1
    /\ \E body \in Hashes \cup {None} :
         IF body = None
         THEN /\ passwordHash' = passwordHash
              /\ out' = {Response(FALSE)}
         ELSE /\ passwordHash' = body
              /\ out' = {Response(TRUE)}
    /\ UNCHANGED <<wsState, attach, closeCode, nextId, spCount>>
    /\ UNCHANGED notHub

\* what Room.handleWebSocket did with an upgrade request
Upgrade(s, providedPasswordHash, error, code) ==
    [kind |-> "upgrade", target |-> s, stored |-> passwordHash,
     provided |-> providedPasswordHash, error |-> error, code |-> code]

\* Room.handleWebSocket for an upgrade request
HandleWebSocket(s) ==
    /\ wsState[s] = "unused"
    /\ \E providedPasswordHash \in Hashes \cup {None} :
         IF passwordHash # None /\ providedPasswordHash = None
         THEN /\ out' = {Upgrade(s, providedPasswordHash, "PASSWORD_REQUIRED", CloseRequired)}
              /\ closeCode' = [closeCode EXCEPT ![s] = CloseRequired]
              /\ wsState' = [wsState EXCEPT ![s] = "closing"]
         ELSE IF passwordHash # None /\ providedPasswordHash # passwordHash
         THEN /\ out' = {Upgrade(s, providedPasswordHash, "PASSWORD_INCORRECT", CloseIncorrect)}
              /\ closeCode' = [closeCode EXCEPT ![s] = CloseIncorrect]
              /\ wsState' = [wsState EXCEPT ![s] = "closing"]
         ELSE /\ out' = {Upgrade(s, providedPasswordHash, "", 0)}
              /\ closeCode' = closeCode
              /\ wsState' = [wsState EXCEPT ![s] = "open"]
    /\ UNCHANGED <<passwordHash, attach, nextId, spCount, spAwaiting>>
    /\ UNCHANGED notHub

\* Room.handleJoin for a join frame arriving on session s.  A frame the
\* client sent before it saw the hub's close still arrives on a socket the
\* hub has closed; ws.send on such a socket either throws (the handler stops,
\* webSocketMessage catches) or drops the frame.
HandleJoin(s) ==
    /\ s \in getWebSockets
    /\ nextId <= MaxPeerIds
    /\ \E sendThrows \in BOOLEAN :
         LET peerId == randomUUID(nextId)
             attached == [attach EXCEPT ![s] = peerId]
             otherPeers == {attached[t] : t \in {u \in getActivePeers : attached[u] # peerId}}
             stops == ~Delivers(s) /\ sendThrows
             joined == IF Delivers(s)
                       THEN {[kind |-> "joined", target |-> s, peerId |-> peerId,
                              peers |-> otherPeers]}
                       ELSE {}
             peerJoined == IF stops
                           THEN {}
                           ELSE {[kind |-> "peer-joined", target |-> t, peer |-> peerId] :
                                   t \in {u \in getWebSockets :
                                            attached[u] # None /\ attached[u] # peerId
                                            /\ Delivers(u)}}
         IN  /\ attach' = attached
             /\ nextId' = nextId + 1
             /\ out' = joined \cup peerJoined
    /\ UNCHANGED <<passwordHash, wsState, closeCode, spCount, spAwaiting>>
    /\ UNCHANGED notHub

\* Room.handleLeave: the peer-left frames it broadcasts; the socket being
\* closed no longer takes frames
handleLeave(s) ==
    IF getPeerIdFromWs(s) = None
    THEN {}
    ELSE {[kind |-> "peer-left", target |-> t, peer |-> getPeerIdFromWs(s)] :
            t \in broadcast(None) \ {s}}

\* Room.webSocketClose
WebSocketClose(s) ==
    /\ s \in getWebSockets
    /\ out' = handleLeave(s)
    /\ wsState' = [wsState EXCEPT ![s] = "closed"]
    /\ attach' = [attach EXCEPT ![s] = None]
    /\ UNCHANGED <<passwordHash, closeCode, nextId, spCount, spAwaiting>>
    /\ UNCHANGED notHub

\* Room.webSocketError
WebSocketError(s) ==
    /\ s \in getWebSockets
    /\ out' = handleLeave(s)
    /\ wsState' = [wsState EXCEPT ![s] = "closed"]
    /\ attach' = [attach EXCEPT ![s] = None]
    /\ UNCHANGED <<passwordHash, closeCode, nextId, spCount, spAwaiting>>
    /\ UNCHANGED notHub

\* what a forwarding handler delivers for a frame {type, from?, to?} that
\* arrived on session s; the frame's type and payload pass through unread,
\* so a delivery is tagged with the handler that made it
Forward(s, handler, msgTo, msgFrom) ==
    IF msgTo = None \/ getPeerIdFromWs(s) = None
    THEN {}
    ELSE {[kind |-> "forward", handler |-> handler, to |-> msgTo,
           from |-> fromField(s, msgFrom), target |-> t, targetId |-> attach[t],
           sender |-> s, senderId |-> attach[s]] : t \in sendToPeer(msgTo)}

\* a frame for the given handler arrives on session s; the client chose its
\* to field, and either left from out or claimed to be the first peer
Forwarding(s, handler) ==
    /\ s \in getWebSockets
    /\ \E msgTo \in PeerIds \cup {None}, msgFrom \in {None, randomUUID(1)} :
         out' = Forward(s, handler, msgTo, msgFrom)
    /\ UNCHANGED <<passwordHash, wsState, attach, closeCode, nextId, spCount, spAwaiting>>
    /\ UNCHANGED notHub

\* Room.handleSignaling: offer, answer, ice-candidate
HandleSignaling(s) == Forwarding(s, "handleSignaling")

\* Room.handleText: text
HandleText(s) == Forwarding(s, "handleText")

\* Room.handleRelayData: relay-data
HandleRelayData(s) == Forwarding(s, "handleRelayData")

\* Room.handleKeyExchange: key-exchange
HandleKeyExchange(s) == Forwarding(s, "handleKeyExchange")

\* Room.handleFileSignaling: file-request, file-response, file-cancel
HandleFileSignaling(s) == Forwarding(s, "handleFileSignaling")

\* Room.handleNameChanged
HandleNameChanged(s) ==
    /\ s \in getWebSockets
    /\ out' = IF getPeerIdFromWs(s) = None
              THEN {}
              ELSE {[kind |-> "name-changed", target |-> t, from |-> getPeerIdFromWs(s)] :
                      t \in broadcast(getPeerIdFromWs(s))}
    /\ UNCHANGED <<passwordHash, wsState, attach, closeCode, nextId, spCount, spAwaiting>>
    /\ UNCHANGED notHub

NextHub ==
    \/ SetPasswordBegin
    \/ SetPasswordFinish
    \/ \E s \in Sess : HandleWebSocket(s)
    \/ \E s \in Sess : HandleJoin(s)
    \/ \E s \in Sess : WebSocketClose(s)
    \/ \E s \in Sess : WebSocketError(s)
    \/ \E s \in Sess : HandleSignaling(s)
    \/ \E s \in Sess : HandleText(s)
    \/ \E s \in Sess : HandleRelayData(s)
    \/ \E s \in Sess : HandleKeyExchange(s)
    \/ \E s \in Sess : HandleFileSignaling(s)
    \/ \E s \in Sess : HandleNameChanged(s)

(***************************************************************************)
(* Transfer protocol of one device toward one remote peer (webrtc.js and   *)
(* app.js): receiving files over the data channel or as relay-data,        *)
(* answering file requests, sending text.  The remote peer is arbitrary.   *)
(***************************************************************************)
Nil == [nil |-> TRUE]

FileIds == {"f1", "f2"}
Texts == {"t1", "t2", "t3"}

\* another text than t
OtherText(t) == IF t = "t1" THEN "t2" ELSE IF t = "t2" THEN "t3" ELSE "t1"

ChunkIndices == 0..(MaxChunks - 1)

InitLinkIdle ==
    /\ relayMode = FALSE
    /\ dataChannelOpen = FALSE
    /\ hasSharedSecret = FALSE
    /\ keyExchangeSent = FALSE

InitTransferIdle ==
    /\ pendingFileRequest = Nil
    /\ incomingTransfers = Nil
    /\ activeTransfers = [f \in FileIds |-> "none"]
    /\ accepted = {}
    /\ cancelledIds = {}
    /\ ending = Nil
    /\ textWaiting = Nil
    /\ emit = {}
    /\ hubAlt = {}

\* the transfer object acceptFileRequest and the file-start handlers create
NewTransfer(fileId, totalChunks) ==
    [fileId |-> fileId, totalChunks |-> totalChunks, chunks |-> {},
     receivedIndices |-> {}, pendingAcks |-> {}, confirmed |-> TRUE]

\* transfer.chunks.length
ChunksLength(transfer) ==
    IF transfer.chunks = {} THEN 0
    ELSE (CHOOSE i \in transfer.chunks : \A j \in transfer.chunks : j <= i) + 1

\* signaling.send(frame)
ToHub(type, data) == [to |-> "hub", type |-> type, data |-> data]

\* dc.send(frame)
ToChannel(type, data) == [to |-> "dc", type |-> type, data |-> data]

\* an observer callback: onFileReceived, onProgress, onTextReceived,
\* onTransferCancelled
ToObserver(type, data) == [to |-> "observer", type |-> type, data |-> data]

\* the frames among a handler's output that go to the hub
HubView(frames) == {f \in frames : f.to = "hub"}

\* a handler whose output does not depend on any text
Emit(frames) == emit' = frames /\ hubAlt' = HubView(frames)

\* the suspended file-end handler keeps the transfer object it read; when
\* incomingTransfers drops or replaces that object the handler still has it
EndingAfterReplace ==
    IF ending # Nil /\ ending.detached = Nil
    THEN [ending EXCEPT !.detached = incomingTransfers]
    ELSE ending

\* WebRTCManager._sendChunkAck
sendChunkAck(fileId, acks) ==
    ToHub("relay-data", [type |-> "ack", fileId |-> fileId, acks |-> acks])

\* CloudDrop.acceptFileRequest
acceptFileRequest(request) ==
    /\ Emit({ToHub("file-response", [fileId |-> request.fileId, accepted |-> TRUE])})
    /\ incomingTransfers' = NewTransfer(request.fileId, request.totalChunks)
    /\ ending' = EndingAfterReplace
    /\ accepted' = accepted \cup {request.fileId}
    /\ cancelledIds' = cancelledIds \ {request.fileId}
    /\ pendingFileRequest' = Nil

\* CloudDrop.handleFileRequest for a file-request frame from the hub; a
\* trusted device is accepted at once
HandleFileRequest ==
    /\ \E fileId \in FileIds, totalChunks \in 1..MaxChunks, trusted \in BOOLEAN :
         LET request == [fileId |-> fileId, totalChunks |-> totalChunks]
         IN  IF trusted
             THEN acceptFileRequest(request)
             ELSE /\ pendingFileRequest' = request
                  /\ Emit({})
                  /\ UNCHANGED <<incomingTransfers, ending, accepted, cancelledIds>>
    /\ UNCHANGED <<activeTransfers, textWaiting>>
    /\ UNCHANGED linkVars
    /\ UNCHANGED notTransfer

\* CloudDrop.acceptFileRequest from the confirmation dialog
AcceptFileRequest ==
    /\ pendingFileRequest # Nil
    /\ acceptFileRequest(pendingFileRequest)
    /\ UNCHANGED <<activeTransfers, textWaiting>>
    /\ UNCHANGED linkVars
    /\ UNCHANGED notTransfer

\* CloudDrop.declineFileRequest
DeclineFileRequest ==
    /\ pendingFileRequest # Nil
    /\ Emit({ToHub("file-response", [fileId |-> pendingFileRequest.fileId, accepted |-> FALSE])})
    /\ pendingFileRequest' = Nil
    /\ UNCHANGED <<incomingTransfers, activeTransfers, accepted, cancelledIds, ending, textWaiting>>
    /\ UNCHANGED linkVars
    /\ UNCHANGED notTransfer

\* WebRTCManager.handleMessage, file-start on the data channel
HandleMessageFileStart ==
    /\ dataChannelOpen
    /\ \E fileId \in FileIds, totalChunks \in 1..MaxChunks :
         LET existingTransfer == incomingTransfers
         IN  /\ IF existingTransfer # Nil /\ existingTransfer.confirmed
                   /\ existingTransfer.fileId = fileId
                THEN UNCHANGED <<incomingTransfers, ending>>
                ELSE /\ incomingTransfers' = NewTransfer(fileId, totalChunks)
                     /\ ending' = EndingAfterReplace
             /\ activeTransfers' = [activeTransfers EXCEPT ![fileId] = "receive"]
    /\ Emit({})
    /\ UNCHANGED <<pendingFileRequest, accepted, cancelledIds, textWaiting>>
    /\ UNCHANGED linkVars
    /\ UNCHANGED notTransfer

\* WebRTCManager.handleMessage, a binary chunk on the data channel;
\* decryptChunk either returns or throws
HandleMessageChunk ==
    /\ dataChannelOpen
    /\ \E decrypts \in BOOLEAN :
         LET transfer == incomingTransfers
         IN  IF transfer # Nil /\ decrypts /\ ChunksLength(transfer) < MaxChunks
             THEN /\ incomingTransfers' =
                       [transfer EXCEPT !.chunks = @ \cup {ChunksLength(transfer)}]
                  /\ Emit({ToObserver("progress", [fileId |-> transfer.fileId])})
             ELSE /\ incomingTransfers' = incomingTransfers
                  /\ Emit({})
    /\ UNCHANGED <<pendingFileRequest, activeTransfers, accepted, cancelledIds, ending,
                   textWaiting>>
    /\ UNCHANGED linkVars
    /\ UNCHANGED notTransfer

\* WebRTCManager.handleMessage, file-end on the data channel
HandleMessageFileEnd ==
    /\ dataChannelOpen
    /\ LET transfer == incomingTransfers
       IN  IF transfer # Nil
           THEN /\ Emit({ToObserver("file-received",
                           [fileId |-> transfer.fileId, chunks |-> transfer.chunks])})
                /\ incomingTransfers' = Nil
                /\ ending' = EndingAfterReplace
                /\ activeTransfers' = [activeTransfers EXCEPT ![transfer.fileId] = "none"]
           ELSE /\ Emit({})
                /\ UNCHANGED <<incomingTransfers, ending, activeTransfers>>
    /\ UNCHANGED <<pendingFileRequest, accepted, cancelledIds, textWaiting>>
    /\ UNCHANGED linkVars
    /\ UNCHANGED notTransfer

\* WebRTCManager.handleFileCancel for a file-cancel frame, which comes from
\* the hub, on the data channel, or inside relay-data
HandleFileCancel ==
    /\ \E fileId \in FileIds :
         /\ activeTransfers' =
              IF activeTransfers[fileId] # "none"
              THEN [activeTransfers EXCEPT ![fileId] = "cancelled"]
              ELSE activeTransfers
         /\ IF incomingTransfers # Nil /\ incomingTransfers.fileId = fileId
            THEN /\ incomingTransfers' = Nil
                 /\ ending' = EndingAfterReplace
                 /\ cancelledIds' = cancelledIds \cup {fileId}
            ELSE UNCHANGED <<incomingTransfers, ending, cancelledIds>>
         /\ Emit({ToObserver("transfer-cancelled", [fileId |-> fileId])})
    /\ UNCHANGED <<pendingFileRequest, accepted, textWaiting>>
    /\ UNCHANGED linkVars
    /\ UNCHANGED notTransfer

\* WebRTCManager.handleRelayData, file-start
HandleRelayDataFileStart ==
    /\ relayMode' = TRUE
    /\ \E fileId \in FileIds, totalChunks \in 1..MaxChunks :
         LET existingTransfer == incomingTransfers
         IN  IF existingTransfer # Nil /\ existingTransfer.confirmed
                /\ existingTransfer.fileId = fileId
             THEN /\ incomingTransfers' =
                       [existingTransfer EXCEPT !.chunks = {}, !.totalChunks = totalChunks,
                                                !.receivedIndices = {}]
                  /\ ending' = ending
                  /\ activeTransfers' = [activeTransfers EXCEPT ![fileId] = "receive"]
             ELSE /\ incomingTransfers' = NewTransfer(fileId, totalChunks)
                  /\ ending' = EndingAfterReplace
                  /\ activeTransfers' =
                       [f \in FileIds |->
                          IF f = fileId THEN "receive"
                          ELSE IF existingTransfer # Nil /\ f = existingTransfer.fileId
                               THEN "none"
                               ELSE activeTransfers[f]]
    /\ Emit({})
    /\ UNCHANGED <<pendingFileRequest, accepted, cancelledIds, textWaiting>>
    /\ UNCHANGED <<dataChannelOpen, hasSharedSecret, keyExchangeSent>>
    /\ UNCHANGED notTransfer

\* WebRTCManager.handleRelayData, chunk; decryptChunk either returns or
\* throws
HandleRelayDataChunk ==
    /\ relayMode' = TRUE
    /\ \E fileId \in FileIds, chunkIndex \in ChunkIndices, decrypts \in BOOLEAN :
         LET transfer == incomingTransfers
         IN  IF transfer = Nil \/ transfer.fileId # fileId
             THEN /\ Emit({})
                  /\ incomingTransfers' = incomingTransfers
             ELSE IF chunkIndex \in transfer.receivedIndices
             THEN /\ Emit({sendChunkAck(fileId, {chunkIndex})})
                  /\ incomingTransfers' = incomingTransfers
             ELSE IF ~decrypts
             THEN /\ Emit({})
                  /\ incomingTransfers' = incomingTransfers
             ELSE LET pendingAcks == transfer.pendingAcks \cup {chunkIndex}
                      flush == Cardinality(pendingAcks) >= ACK_BATCH_SIZE
                  IN  /\ incomingTransfers' =
                           [transfer EXCEPT !.chunks = @ \cup {chunkIndex},
                                            !.receivedIndices = @ \cup {chunkIndex},
                                            !.pendingAcks = IF flush THEN {} ELSE pendingAcks]
                      /\ Emit({ToObserver("progress", [fileId |-> transfer.fileId])}
                              \cup (IF flush THEN {sendChunkAck(fileId, pendingAcks)} ELSE {}))
    /\ UNCHANGED <<pendingFileRequest, activeTransfers, accepted, cancelledIds, ending,
                   textWaiting>>
    /\ UNCHANGED <<dataChannelOpen, hasSharedSecret, keyExchangeSent>>
    /\ UNCHANGED notTransfer

\* the end of the relay file-end handler: the blob of the chunks in order,
\* onFileReceived, and the cleanup
FinishRelayFileEnd(transfer, expectedCount, flushed) ==
    /\ Emit(flushed \cup
            {ToObserver("file-received",
               [fileId |-> transfer.fileId,
                chunks |-> {i \in transfer.chunks : i < expectedCount}])})
    /\ incomingTransfers' = Nil
    /\ activeTransfers' = [activeTransfers EXCEPT ![transfer.fileId] = "none"]
    /\ ending' = Nil

\* WebRTCManager.handleRelayData, file-end, up to its wait for missing
\* chunks; one such handler is suspended at a time
HandleRelayDataFileEnd ==
    /\ ending = Nil
    /\ relayMode' = TRUE
    /\ \E totalChunks \in 0..MaxChunks :
         LET transfer == incomingTransfers
         IN  IF transfer = Nil
             THEN /\ Emit({})
                  /\ UNCHANGED <<incomingTransfers, activeTransfers, ending>>
             ELSE LET flushed == IF transfer.pendingAcks # {}
                                 THEN {sendChunkAck(transfer.fileId, transfer.pendingAcks)}
                                 ELSE {}
                      expectedCount == IF totalChunks # 0 THEN totalChunks
                                       ELSE transfer.totalChunks
                      receivedCount == Cardinality(transfer.receivedIndices)
                  IN  IF receivedCount < expectedCount
                      THEN /\ Emit(flushed)
                           /\ incomingTransfers' = [transfer EXCEPT !.pendingAcks = {}]
                           /\ ending' = [expectedCount |-> expectedCount, detached |-> Nil]
                           /\ activeTransfers' = activeTransfers
                      ELSE FinishRelayFileEnd(transfer, expectedCount, flushed)
    /\ UNCHANGED <<pendingFileRequest, accepted, cancelledIds, textWaiting>>
    /\ UNCHANGED <<dataChannelOpen, hasSharedSecret, keyExchangeSent>>
    /\ UNCHANGED notTransfer

\* WebRTCManager.handleRelayData, file-end, from the end of its wait: the
\* chunks arrived or three seconds passed
ResumeRelayFileEnd ==
    /\ ending # Nil
    /\ LET transfer == IF ending.detached = Nil THEN incomingTransfers
                       ELSE ending.detached
       IN  FinishRelayFileEnd(transfer, ending.expectedCount, {})
    /\ UNCHANGED <<pendingFileRequest, accepted, cancelledIds, textWaiting>>
    /\ UNCHANGED linkVars
    /\ UNCHANGED notTransfer

\* WebRTCManager.handleKeyExchange for a key-exchange frame with a public key
ClientHandleKeyExchange ==
    /\ hasSharedSecret' = TRUE
    /\ keyExchangeSent' = TRUE
    /\ Emit(IF keyExchangeSent THEN {}
            ELSE {ToHub("key-exchange", [publicKey |-> "own"])})
    /\ UNCHANGED <<relayMode, dataChannelOpen>>
    /\ UNCHANGED <<pendingFileRequest, incomingTransfers, activeTransfers, accepted, cancelledIds,
                   ending, textWaiting>>
    /\ UNCHANGED notTransfer

\* WebRTCManager.handleMessage, text on the data channel
HandleMessageText ==
    /\ dataChannelOpen
    /\ \E text \in Texts : Emit({ToObserver("text", [content |-> text])})
    /\ UNCHANGED linkVars
    /\ UNCHANGED <<pendingFileRequest, incomingTransfers, activeTransfers, accepted, cancelledIds,
                   ending, textWaiting>>
    /\ UNCHANGED notTransfer

\* WebRTCManager.handleRelayData, text
HandleRelayDataText ==
    /\ relayMode' = TRUE
    /\ \E text \in Texts : Emit({ToObserver("text", [content |-> text])})
    /\ UNCHANGED <<dataChannelOpen, hasSharedSecret, keyExchangeSent>>
    /\ UNCHANGED <<pendingFileRequest, incomingTransfers, activeTransfers, accepted, cancelledIds,
                   ending, textWaiting>>
    /\ UNCHANGED notTransfer

\* WebRTCManager.closeConnection: the channel, the relay flag and the shared
\* key of the peer go; _keyExchangeSent and the transfers stay
CloseConnection ==
    /\ relayMode' = FALSE
    /\ dataChannelOpen' = FALSE
    /\ hasSharedSecret' = FALSE
    /\ keyExchangeSent' = keyExchangeSent
    /\ Emit({})
    /\ UNCHANGED <<pendingFileRequest, incomingTransfers, activeTransfers, accepted, cancelledIds,
                   ending, textWaiting>>
    /\ UNCHANGED notTransfer

\* the relay-data frame _sendTextViaRelay hands to signaling.send
RelayText(text) == ToHub("relay-data", [type |-> "text", content |-> text])

\* WebRTCManager.sendText from the return of ensureConnection, with
\* _sendTextViaRelay up to its wait for the key
SendText ==
    /\ textWaiting = Nil
    /\ \E text \in Texts :
         IF relayMode \/ ~dataChannelOpen
         THEN /\ relayMode' = TRUE
              /\ IF hasSharedSecret
                 THEN /\ emit' = {RelayText(text)}
                      /\ hubAlt' = {RelayText(OtherText(text))}
                      /\ textWaiting' = Nil
                 ELSE /\ Emit({ToHub("key-exchange", [publicKey |-> "own"])})
                      /\ textWaiting' = [text |-> text]
         ELSE /\ relayMode' = relayMode
              /\ emit' = {ToChannel("text", [content |-> text])}
              /\ hubAlt' = {}
              /\ textWaiting' = Nil
    /\ UNCHANGED <<dataChannelOpen, hasSharedSecret, keyExchangeSent>>
    /\ UNCHANGED <<pendingFileRequest, incomingTransfers, activeTransfers, accepted,
                   cancelledIds, ending>>
    /\ UNCHANGED notTransfer

\* WebRTCManager._sendTextViaRelay from the end of waitForEncryptionKey: the
\* key is there, or five seconds passed and the call fails
ResumeSendTextViaRelay ==
    /\ textWaiting # Nil
    /\ IF hasSharedSecret
       THEN /\ emit' = {RelayText(textWaiting.text)}
            /\ hubAlt' = {RelayText(OtherText(textWaiting.text))}
       ELSE Emit({})
    /\ textWaiting' = Nil
    /\ UNCHANGED linkVars
    /\ UNCHANGED <<pendingFileRequest, incomingTransfers, activeTransfers, accepted,
                   cancelledIds, ending>>
    /\ UNCHANGED notTransfer

NextTransfer ==
    \/ HandleFileRequest
    \/ AcceptFileRequest
    \/ DeclineFileRequest
    \/ HandleMessageFileStart
    \/ HandleMessageChunk
    \/ HandleMessageFileEnd
    \/ HandleFileCancel
    \/ HandleRelayDataFileStart
    \/ HandleRelayDataChunk
    \/ HandleRelayDataFileEnd
    \/ ResumeRelayFileEnd

NextText ==
    \/ ClientHandleKeyExchange
    \/ SendText
    \/ ResumeSendTextViaRelay
    \/ HandleMessageText
    \/ HandleRelayDataText
    \/ CloseConnection

(***************************************************************************)
(* Offer/answer negotiation between two devices (webrtc.js createOffer,    *)
(* handleOffer, handleAnswer).  Device "a" has the smaller peer id, so it  *)
(* is the polite one.  A peer connection is what the browser keeps: the    *)
(* signaling state with the current and the pending descriptions.  Frames  *)
(* go through the hub in order.                                            *)
(***************************************************************************)
Devices == {"a", "b"}

\* the remote peer of device p
Other(p) == IF p = "a" THEN "b" ELSE "a"

\* WebRTCManager._isPolite: this._myPeerId < peerId
isPolite(p) == p = "a"

\* new RTCPeerConnection(...)
NewPeerConnection ==
    [signalingState |-> "stable", currentLocal |-> Nil, currentRemote |-> Nil,
     pendingLocal |-> Nil, pendingRemote |-> Nil]

\* the n-th offer device p makes: pc.createOffer()
Offer(p, n) == [type |-> "offer", by |-> p, n |-> n]

\* pc.createAnswer() to the pending remote offer
Answer(p, offer) == [type |-> "answer", by |-> p, to |-> offer]

\* pc.setLocalDescription({type: 'rollback'})
Rollback(c) ==
    [c EXCEPT !.signalingState = "stable", !.pendingLocal = Nil, !.pendingRemote = Nil]

\* pc.setLocalDescription(offer)
SetLocalOffer(c, offer) ==
    [c EXCEPT !.signalingState = "have-local-offer", !.pendingLocal = offer]

\* pc.setRemoteDescription(offer)
SetRemoteOffer(c, offer) ==
    [c EXCEPT !.signalingState = "have-remote-offer", !.pendingRemote = offer]

\* pc.setLocalDescription(answer) in have-remote-offer
SetLocalAnswer(c, answer) ==
    [c EXCEPT !.signalingState = "stable", !.currentLocal = answer,
              !.currentRemote = c.pendingRemote, !.pendingLocal = Nil,
              !.pendingRemote = Nil]

\* pc.setRemoteDescription(answer) in have-local-offer
SetRemoteAnswer(c, answer) ==
    [c EXCEPT !.signalingState = "stable", !.currentLocal = c.pendingLocal,
              !.currentRemote = answer, !.pendingLocal = Nil, !.pendingRemote = Nil]

InitNegIdle ==
    /\ connections = [p \in Devices |-> Nil]
    /\ makingOffer = [p \in Devices |-> FALSE]
    /\ ignoreOffer = [p \in Devices |-> FALSE]
    /\ dataChannels = [p \in Devices |-> "none"]
    /\ sharedSecrets = [p \in Devices |-> FALSE]
    /\ offering = [p \in Devices |-> "idle"]
    /\ answering = [p \in Devices |-> FALSE]
    /\ offersMade = [p \in Devices |-> 0]
    /\ net = [p \in Devices |-> <<>>]
    /\ glare = FALSE

\* the two descriptions of x and y are the two halves of one offer/answer
\* exchange in which x offered: the browsers can bring the transport up
Established(x, y) ==
    /\ connections[x] # Nil /\ connections[y] # Nil
    /\ connections[x].signalingState = "stable"
    /\ connections[y].signalingState = "stable"
    /\ connections[x].currentLocal # Nil
    /\ connections[x].currentLocal.type = "offer"
    /\ connections[x].currentLocal.by = x
    /\ connections[y].currentRemote = connections[x].currentLocal
    /\ connections[y].currentLocal = Answer(y, connections[x].currentLocal)
    /\ connections[x].currentRemote = connections[y].currentLocal

\* an offer of device p is in flight to the other device
OfferInFlight(p, nets) ==
    \E i \in 1..Len(nets[Other(p)]) :
       nets[Other(p)][i].type = "offer" /\ nets[Other(p)][i].by = p

\* WebRTCManager.createOffer up to its await of createConnection
CreateOfferBegin(p) ==
    /\ offering[p] = "idle"
    /\ offersMade[p] < MaxOffers
    /\ offersMade' = [offersMade EXCEPT ![p] = @ + 1]
    /\ IF dataChannels[p] \in {"open", "connecting"}
       THEN /\ makingOffer' = [makingOffer EXCEPT ![p] = FALSE]
            /\ UNCHANGED <<offering, dataChannels>>
       ELSE IF connections[p] # Nil
       THEN /\ makingOffer' = [makingOffer EXCEPT ![p] = TRUE]
            /\ dataChannels' = [dataChannels EXCEPT ![p] = "connecting"]
            /\ offering' = [offering EXCEPT ![p] = "offer"]
       ELSE /\ makingOffer' = [makingOffer EXCEPT ![p] = TRUE]
            /\ dataChannels' = dataChannels
            /\ offering' = [offering EXCEPT ![p] = "fetchIceServers"]
    /\ UNCHANGED <<connections, ignoreOffer, sharedSecrets, answering, net, glare>>
    /\ UNCHANGED notNeg

\* WebRTCManager.createConnection from the return of fetchIceServers, then
\* createOffer up to its await of pc.createOffer()
CreateOfferConnection(p) ==
    /\ offering[p] = "fetchIceServers"
    /\ connections' = [connections EXCEPT ![p] = NewPeerConnection]
    /\ makingOffer' = [makingOffer EXCEPT ![p] = FALSE]
    /\ ignoreOffer' = [ignoreOffer EXCEPT ![p] = FALSE]
    /\ dataChannels' = [dataChannels EXCEPT ![p] = "connecting"]
    /\ offering' = [offering EXCEPT ![p] = "offer"]
    /\ UNCHANGED <<sharedSecrets, answering, offersMade, net, glare>>
    /\ UNCHANGED notNeg

\* WebRTCManager.createOffer from pc.createOffer() to its end; createOffer
\* is rejected in have-remote-offer
CreateOfferSend(p) ==
    /\ offering[p] = "offer"
    /\ offering' = [offering EXCEPT ![p] = "idle"]
    /\ makingOffer' = [makingOffer EXCEPT ![p] = FALSE]
    /\ IF connections[p].signalingState = "have-remote-offer"
       THEN UNCHANGED <<connections, net, glare>>
       ELSE LET offer == Offer(p, offersMade[p])
                sent == [net EXCEPT ![Other(p)] = Append(@, offer)]
                pcs == [connections EXCEPT ![p] = SetLocalOffer(@, offer)]
            IN  /\ connections' = pcs
                /\ net' = sent
                /\ glare' = (glare \/
                              (/\ \A d \in Devices :
                                    /\ pcs[d] # Nil
                                    /\ pcs[d].signalingState = "have-local-offer"
                                    /\ ~makingOffer'[d]
                                    /\ OfferInFlight(d, sent)))
    /\ UNCHANGED <<ignoreOffer, dataChannels, sharedSecrets, answering, offersMade>>
    /\ UNCHANGED notNeg

\* WebRTCManager.handleOffer up to its await of createAnswer: the
\* connection, the collision test, the rollback, the remote description and
\* the key.  It waits for a createConnection already in progress.
HandleOffer(p) ==
    /\ net[p] # <<>>
    /\ Head(net[p]).type = "offer"
    /\ offering[p] # "fetchIceServers"
    /\ net' = [net EXCEPT ![p] = Tail(@)]
    /\ LET created == connections[p] = Nil
           pc == IF created THEN NewPeerConnection ELSE connections[p]
           making == IF created THEN FALSE ELSE makingOffer[p]
           offerCollision ==
              making \/ (pc.signalingState # "stable"
                         /\ pc.signalingState # "have-local-offer")
           ignore == ~isPolite(p) /\ offerCollision
       IN  /\ makingOffer' = [makingOffer EXCEPT ![p] = making]
           /\ ignoreOffer' = [ignoreOffer EXCEPT ![p] = ignore]
           /\ IF ignore
              THEN /\ connections' = [connections EXCEPT ![p] = pc]
                   /\ UNCHANGED <<sharedSecrets, answering>>
              ELSE /\ connections' =
                        [connections EXCEPT ![p] =
                           SetRemoteOffer(IF pc.signalingState = "have-local-offer"
                                          THEN Rollback(pc) ELSE pc,
                                          Head(net[p]))]
                   /\ sharedSecrets' = [sharedSecrets EXCEPT ![p] = TRUE]
                   /\ answering' = [answering EXCEPT ![p] = TRUE]
    /\ UNCHANGED <<dataChannels, offering, offersMade, glare>>
    /\ UNCHANGED notNeg

\* WebRTCManager.handleOffer from createAnswer to its end
AnswerOffer(p) ==
    /\ answering[p]
    /\ answering' = [answering EXCEPT ![p] = FALSE]
    /\ IF connections[p].signalingState = "have-remote-offer"
       THEN LET answer == Answer(p, connections[p].pendingRemote)
            IN  /\ connections' = [connections EXCEPT ![p] = SetLocalAnswer(@, answer)]
                /\ net' = [net EXCEPT ![Other(p)] = Append(@, answer)]
       ELSE UNCHANGED <<connections, net>>
    /\ UNCHANGED <<makingOffer, ignoreOffer, dataChannels, sharedSecrets, offering,
                   offersMade, glare>>
    /\ UNCHANGED notNeg

\* WebRTCManager.handleAnswer
HandleAnswer(p) ==
    /\ net[p] # <<>>
    /\ Head(net[p]).type = "answer"
    /\ net' = [net EXCEPT ![p] = Tail(@)]
    /\ IF connections[p] # Nil /\ connections[p].signalingState = "have-local-offer"
       THEN /\ connections' = [connections EXCEPT ![p] = SetRemoteAnswer(@, Head(net[p]))]
            /\ sharedSecrets' = [sharedSecrets EXCEPT ![p] = TRUE]
       ELSE UNCHANGED <<connections, sharedSecrets>>
    /\ UNCHANGED <<makingOffer, ignoreOffer, dataChannels, offering, answering,
                   offersMade, glare>>
    /\ UNCHANGED notNeg

\* channel.onopen, through createOffer's channel or pc.ondatachannel: the
\* browsers opened the channel of an established exchange
ChannelOpen(p) ==
    /\ Established(p, Other(p)) \/ Established(Other(p), p)
    /\ dataChannels[p] # "open"
    /\ dataChannels' = [dataChannels EXCEPT ![p] = "open"]
    /\ UNCHANGED <<connections, makingOffer, ignoreOffer, sharedSecrets, offering,
                   answering, offersMade, net, glare>>
    /\ UNCHANGED notNeg

NextNeg ==
    \/ \E p \in Devices : CreateOfferBegin(p)
    \/ \E p \in Devices : CreateOfferConnection(p)
    \/ \E p \in Devices : CreateOfferSend(p)
    \/ \E p \in Devices : HandleOffer(p)
    \/ \E p \in Devices : AnswerOffer(p)
    \/ \E p \in Devices : HandleAnswer(p)
    \/ \E p \in Devices : ChannelOpen(p)

(***************************************************************************)
(* Connection racing of one device about one peer (webrtc.js               *)
(* ensureConnection, _raceP2PWithFallback, _attemptP2PConnection,          *)
(* createConnection, _switchToRelay and the ICE handlers).  A race is      *)
(* named by the ensureConnection call that started it.  The timers of one  *)
(* race fire in the order of their delays; the timers of different races   *)
(* are not ordered against each other.                                     *)
(***************************************************************************)
Calls == 1..MaxCalls

\* e.candidate.type; "host" stands for the types that make a direct path
\* possible (host, srflx, prflx), which the code tests together
CandidateTypes == {"host", "relay"}

\* racingState = { resolved: false, winner: null }
NewRacingState == [resolved |-> FALSE, winner |-> None]

\* the promise _raceP2PWithFallback(peerId) returned to call c
RacePromise(c) == ToString(c)

InitRaceIdle ==
    /\ pcExists = FALSE
    /\ creating = FALSE
    /\ pendingConnections = None
    /\ connectionRacing = 0
    /\ candidateTypes = {}
    /\ gatheringComplete = FALSE
    /\ connectionQuality = Nil
    /\ iceConnectionState = "new"
    /\ iceRestartCounts = 0
    /\ channelPending = FALSE
    /\ call = [c \in Calls |-> "idle"]
    /\ awaits = [c \in Calls |-> None]
    /\ attempt = [c \in Calls |-> "none"]
    /\ racingState = [c \in Calls |-> NewRacingState]
    /\ racePromise = [c \in Calls |-> "unset"]
    /\ fallbackTimer = [c \in Calls |-> "unset"]
    /\ ultimateTimer = [c \in Calls |-> "unset"]
    /\ returnedOk = [c \in Calls |-> TRUE]

\* WebRTCManager._updateConnectionQuality
updateConnectionQuality(types) ==
    [p2pPossible |-> "host" \in types,
     hasRelay |-> "relay" \in types,
     networkIssue |-> FALSE]

\* WebRTCManager._finalizeConnectionQuality
finalizeConnectionQuality(types, quality) ==
    IF types = {}
    THEN [p2pPossible |-> FALSE, hasRelay |-> FALSE, networkIssue |-> TRUE]
    ELSE quality

\* WebRTCManager._shouldFastFallback
shouldFastFallback(quality) ==
    IF quality = Nil THEN FALSE
    ELSE (~quality.p2pPossible /\ quality.hasRelay) \/ quality.networkIssue

\* WebRTCManager._hasP2PProgress
hasP2PProgress(types, pc, ice) ==
    /\ "host" \in types
    /\ pc
    /\ ice \in {"new", "checking", "connected", "completed"}

\* a fallback decision that gives the direct attempt more time whenever any
\* candidate was gathered
shouldFallbackNoCandidates(quality, types, pc, ice) == types = {}

\* the fallbackTimer's decision in _raceP2PWithFallback
shouldFallback(quality, types, pc, ice) ==
    shouldFastFallback(quality) \/ ~hasP2PProgress(types, pc, ice)

\* WebRTCManager._switchToRelay, its effect on the racing states rs
switchToRelay(rs) ==
    IF relayMode \/ connectionRacing = 0 THEN rs
    ELSE IF rs[connectionRacing].resolved THEN rs
    ELSE [rs EXCEPT ![connectionRacing] = [resolved |-> TRUE, winner |-> "relay"]]

\* what ensureConnection promises on return, with the values at the return
Connected(relay, open, key) == relay \/ (open /\ key)

\* The race of call c settles with result: its finally clears
\* connectionRacing, ensureConnection's finally clears pendingConnections,
\* and the calls awaiting this promise return.
SettleRace(c, result, relay) ==
    /\ racePromise' = [racePromise EXCEPT ![c] = result]
    /\ connectionRacing' = 0
    /\ pendingConnections' = None
    /\ LET done == {d \in Calls : d = c \/ (call[d] = "pending" /\ awaits[d] = RacePromise(c))}
       IN  /\ call' = [d \in Calls |-> IF d \in done THEN "returned" ELSE call[d]]
           /\ awaits' = [d \in Calls |-> IF d \in done THEN None ELSE awaits[d]]
           /\ returnedOk' = [d \in Calls |->
                               IF d \in done
                               THEN Connected(relay, dataChannelOpen, hasSharedSecret)
                               ELSE returnedOk[d]]

\* WebRTCManager.ensureConnection up to its first await, with the start of
\* _raceP2PWithFallback, _attemptP2PConnection, createOffer and
\* createConnection that run before it
EnsureConnection(c) ==
    /\ call[c] = "idle"
    /\ IF relayMode \/ (dataChannelOpen /\ hasSharedSecret)
       THEN /\ call' = [call EXCEPT ![c] = "returned"]
            /\ returnedOk' = [returnedOk EXCEPT ![c] =
                                Connected(relayMode, dataChannelOpen, hasSharedSecret)]
            /\ UNCHANGED <<creating, pendingConnections, connectionRacing,
                           channelPending, awaits, attempt, racingState,
                           racePromise, fallbackTimer, ultimateTimer>>
       ELSE IF pendingConnections # None
       THEN /\ call' = [call EXCEPT ![c] = "pending"]
            /\ awaits' = [awaits EXCEPT ![c] = pendingConnections]
            /\ UNCHANGED <<creating, pendingConnections, connectionRacing,
                           channelPending, attempt, racingState, racePromise,
                           fallbackTimer, ultimateTimer, returnedOk>>
       ELSE /\ call' = [call EXCEPT ![c] = "race"]
            /\ racingState' = [racingState EXCEPT ![c] = NewRacingState]
            /\ connectionRacing' = c
            /\ racePromise' = [racePromise EXCEPT ![c] = "pending"]
            /\ fallbackTimer' = [fallbackTimer EXCEPT ![c] = "armed"]
            /\ ultimateTimer' = [ultimateTimer EXCEPT ![c] = "armed"]
            /\ pendingConnections' = RacePromise(c)
            /\ IF channelPending \/ dataChannelOpen
               THEN /\ attempt' = [attempt EXCEPT ![c] = "waiting"]
                    /\ UNCHANGED <<creating, channelPending>>
               ELSE IF pcExists
               THEN /\ attempt' = [attempt EXCEPT ![c] = "offering"]
                    /\ channelPending' = TRUE
                    /\ UNCHANGED creating
               ELSE /\ attempt' = [attempt EXCEPT ![c] = "createConnection"]
                    /\ creating' = TRUE
                    /\ UNCHANGED channelPending
            /\ UNCHANGED <<awaits, returnedOk>>
    /\ UNCHANGED <<pcExists, candidateTypes, gatheringComplete, connectionQuality,
                   iceConnectionState, iceRestartCounts>>
    /\ UNCHANGED linkVars
    /\ UNCHANGED notRace

\* WebRTCManager.handleOffer calling createConnection, up to the await of
\* fetchIceServers
IncomingOffer ==
    /\ ~pcExists /\ ~creating /\ pendingConnections = None
    /\ creating' = TRUE
    /\ pendingConnections' = "createConnection"
    /\ UNCHANGED <<pcExists, connectionRacing, candidateTypes, gatheringComplete,
                   connectionQuality, iceConnectionState, iceRestartCounts,
                   channelPending, call, awaits, attempt, racingState, racePromise,
                   fallbackTimer, ultimateTimer, returnedOk>>
    /\ UNCHANGED linkVars
    /\ UNCHANGED notRace

\* WebRTCManager.createConnection from the return of fetchIceServers, with
\* its finally and the continuations of those awaiting its promise:
\* createOffer creates the data channel, ensureConnection returns
CreateConnectionDone ==
    /\ creating
    /\ creating' = FALSE
    /\ pcExists' = TRUE
    /\ pendingConnections' = None
    /\ attempt' = [c \in Calls |->
                     IF attempt[c] = "createConnection" THEN "offering" ELSE attempt[c]]
    /\ channelPending' = (channelPending \/ \E c \in Calls : attempt[c] = "createConnection")
    /\ LET done == {d \in Calls : call[d] = "pending" /\ awaits[d] = "createConnection"}
       IN  /\ call' = [d \in Calls |-> IF d \in done THEN "returned" ELSE call[d]]
           /\ awaits' = [d \in Calls |-> IF d \in done THEN None ELSE awaits[d]]
           /\ returnedOk' = [d \in Calls |->
                               IF d \in done
                               THEN Connected(relayMode, dataChannelOpen, hasSharedSecret)
                               ELSE returnedOk[d]]
    /\ UNCHANGED <<connectionRacing, candidateTypes, gatheringComplete,
                   connectionQuality, iceConnectionState, iceRestartCounts,
                   racingState, racePromise, fallbackTimer, ultimateTimer>>
    /\ UNCHANGED linkVars
    /\ UNCHANGED notRace

\* WebRTCManager.createOffer from exportPublicKey to its end, then
\* _attemptP2PConnection starts to wait for the channel and the key
CreateOfferDone(c) ==
    /\ attempt[c] = "offering"
    /\ attempt' = [attempt EXCEPT ![c] = "waiting"]
    /\ UNCHANGED <<pcExists, creating, pendingConnections, connectionRacing,
                   candidateTypes, gatheringComplete, connectionQuality,
                   iceConnectionState, iceRestartCounts, channelPending, call, awaits,
                   racingState, racePromise, fallbackTimer, ultimateTimer, returnedOk>>
    /\ UNCHANGED linkVars
    /\ UNCHANGED notRace

\* pc.onicecandidate with a candidate
IceCandidate(type) ==
    /\ pcExists /\ ~gatheringComplete
    /\ type \notin candidateTypes
    /\ candidateTypes' = candidateTypes \cup {type}
    /\ connectionQuality' = updateConnectionQuality(candidateTypes')
    /\ UNCHANGED <<pcExists, creating, pendingConnections, connectionRacing,
                   gatheringComplete, iceConnectionState, iceRestartCounts,
                   channelPending, call, awaits, attempt, racingState, racePromise,
                   fallbackTimer, ultimateTimer, returnedOk>>
    /\ UNCHANGED linkVars
    /\ UNCHANGED notRace

\* pc.onicecandidate without a candidate: gathering is complete
IceGatheringComplete ==
    /\ pcExists /\ ~gatheringComplete
    /\ gatheringComplete' = TRUE
    /\ connectionQuality' = finalizeConnectionQuality(candidateTypes, connectionQuality)
    /\ UNCHANGED <<pcExists, creating, pendingConnections, connectionRacing,
                   candidateTypes, iceConnectionState, iceRestartCounts, channelPending,
                   call, awaits, attempt, racingState, racePromise, fallbackTimer,
                   ultimateTimer, returnedOk>>
    /\ UNCHANGED linkVars
    /\ UNCHANGED notRace

\* the moves of pc.iceConnectionState; it leaves "failed" only by a restart
IceMoves(from, to) ==
    \/ from = "new" /\ to = "checking"
    \/ from = "checking" /\ to \in {"connected", "failed"}
    \/ from = "connected" /\ to = "failed"
    \/ from = "failed" /\ to = "checking" /\ iceRestartCounts > 0

\* WebRTCManager._handleIceConnectionStateChange
HandleIceConnectionStateChange(state) ==
    /\ pcExists
    /\ IceMoves(iceConnectionState, state)
    /\ iceConnectionState' = state
    /\ IF state = "failed"
       THEN IF connectionQuality # Nil /\ connectionQuality.p2pPossible
               /\ iceRestartCounts < MAX_ICE_RESTARTS
            THEN /\ iceRestartCounts' = iceRestartCounts + 1
                 /\ UNCHANGED <<relayMode, racingState>>
            ELSE /\ relayMode' = TRUE
                 /\ racingState' = switchToRelay(racingState)
                 /\ UNCHANGED iceRestartCounts
       ELSE IF state = "connected"
       THEN /\ iceRestartCounts' = 0
            /\ relayMode' = FALSE
            /\ UNCHANGED racingState
       ELSE UNCHANGED <<iceRestartCounts, relayMode, racingState>>
    /\ UNCHANGED <<pcExists, creating, pendingConnections, connectionRacing,
                   candidateTypes, gatheringComplete, connectionQuality,
                   channelPending, call, awaits, attempt, racePromise, fallbackTimer,
                   ultimateTimer, returnedOk>>
    /\ UNCHANGED <<dataChannelOpen, hasSharedSecret, keyExchangeSent>>
    /\ UNCHANGED notRace

\* channel.onopen in setupDataChannel
DataChannelOpen ==
    /\ pcExists /\ iceConnectionState = "connected" /\ ~dataChannelOpen
    /\ dataChannelOpen' = TRUE
    /\ channelPending' = FALSE
    /\ relayMode' = FALSE
    /\ UNCHANGED <<pcExists, creating, pendingConnections, connectionRacing,
                   candidateTypes, gatheringComplete, connectionQuality,
                   iceConnectionState, iceRestartCounts, call, awaits, attempt,
                   racingState, racePromise, fallbackTimer, ultimateTimer, returnedOk>>
    /\ UNCHANGED <<hasSharedSecret, keyExchangeSent>>
    /\ UNCHANGED notRace

\* cryptoManager.importPeerPublicKey in handleOffer and handleAnswer
ImportPeerPublicKey ==
    /\ pcExists /\ ~hasSharedSecret
    /\ hasSharedSecret' = TRUE
    /\ UNCHANGED <<raceVars, relayMode, dataChannelOpen, keyExchangeSent>>
    /\ UNCHANGED notRace

\* the timers of the race of call c after its direct attempt settled
ClearTimers(timer, c) ==
    [timer EXCEPT ![c] = IF @ = "armed" THEN "cleared" ELSE @]

\* the fallbackTimer of _raceP2PWithFallback fires
FallbackTimer(c) ==
    /\ fallbackTimer[c] = "armed"
    /\ fallbackTimer' = [fallbackTimer EXCEPT ![c] = "fired"]
    /\ IF /\ ~racingState[c].resolved
          /\ shouldFallback(connectionQuality, candidateTypes, pcExists,
                            iceConnectionState)
       THEN /\ relayMode' = TRUE
            /\ racingState' = switchToRelay(racingState)
            /\ IF racePromise[c] = "pending"
               THEN SettleRace(c, "relay", TRUE)
               ELSE UNCHANGED <<racePromise, connectionRacing, pendingConnections,
                                call, awaits, returnedOk>>
       ELSE UNCHANGED <<relayMode, racingState, racePromise, connectionRacing,
                        pendingConnections, call, awaits, returnedOk>>
    /\ UNCHANGED <<pcExists, creating, candidateTypes, gatheringComplete,
                   connectionQuality, iceConnectionState, iceRestartCounts,
                   channelPending, attempt, ultimateTimer>>
    /\ UNCHANGED <<dataChannelOpen, hasSharedSecret, keyExchangeSent>>
    /\ UNCHANGED notRace

\* the ultimateTimer of _raceP2PWithFallback fires
UltimateTimer(c) ==
    /\ ultimateTimer[c] = "armed"
    /\ fallbackTimer[c] # "armed"
    /\ ultimateTimer' = [ultimateTimer EXCEPT ![c] = "fired"]
    /\ IF ~racingState[c].resolved
       THEN /\ relayMode' = TRUE
            /\ racingState' = switchToRelay(racingState)
            /\ IF racePromise[c] = "pending"
               THEN SettleRace(c, "relay", TRUE)
               ELSE UNCHANGED <<racePromise, connectionRacing, pendingConnections,
                                call, awaits, returnedOk>>
       ELSE UNCHANGED <<relayMode, racingState, racePromise, connectionRacing,
                        pendingConnections, call, awaits, returnedOk>>
    /\ UNCHANGED <<pcExists, creating, candidateTypes, gatheringComplete,
                   connectionQuality, iceConnectionState, iceRestartCounts,
                   channelPending, attempt, fallbackTimer>>
    /\ UNCHANGED <<dataChannelOpen, hasSharedSecret, keyExchangeSent>>
    /\ UNCHANGED notRace

\* waitForChannel and waitForEncryptionKey both resolve: the then-branch of
\* p2pPromise in _raceP2PWithFallback
P2PResolved(c) ==
    /\ attempt[c] = "waiting"
    /\ dataChannelOpen /\ hasSharedSecret
    /\ attempt' = [attempt EXCEPT ![c] = "resolved"]
    /\ racingState' = [racingState EXCEPT ![c] =
                         IF @.resolved THEN @ ELSE [resolved |-> TRUE, winner |-> "p2p"]]
    /\ fallbackTimer' = ClearTimers(fallbackTimer, c)
    /\ ultimateTimer' = ClearTimers(ultimateTimer, c)
    /\ IF racePromise[c] = "pending"
       THEN SettleRace(c, "p2p", relayMode)
       ELSE UNCHANGED <<racePromise, connectionRacing, pendingConnections, call,
                        awaits, returnedOk>>
    /\ UNCHANGED <<pcExists, creating, candidateTypes, gatheringComplete,
                   connectionQuality, iceConnectionState, iceRestartCounts,
                   channelPending>>
    /\ UNCHANGED linkVars
    /\ UNCHANGED notRace

\* waitForChannel or waitForEncryptionKey rejects, on its own timeout or on
\* a failed connection: the catch-branch of p2pPromise
P2PRejected(c) ==
    /\ attempt[c] = "waiting"
    /\ ~(dataChannelOpen /\ hasSharedSecret)
    /\ \/ ultimateTimer[c] = "fired"
       \/ iceConnectionState = "failed" /\ ~dataChannelOpen
    /\ attempt' = [attempt EXCEPT ![c] = "rejected"]
    /\ fallbackTimer' = ClearTimers(fallbackTimer, c)
    /\ ultimateTimer' = ClearTimers(ultimateTimer, c)
    /\ IF ~racingState[c].resolved
       THEN /\ racingState' = [racingState EXCEPT ![c] =
                                 [resolved |-> TRUE, winner |-> "relay"]]
            /\ relayMode' = TRUE
       ELSE UNCHANGED <<racingState, relayMode>>
    /\ IF racePromise[c] = "pending"
       THEN SettleRace(c, "relay", relayMode')
       ELSE UNCHANGED <<racePromise, connectionRacing, pendingConnections, call,
                        awaits, returnedOk>>
    /\ UNCHANGED <<pcExists, creating, candidateTypes, gatheringComplete,
                   connectionQuality, iceConnectionState, iceRestartCounts,
                   channelPending>>
    /\ UNCHANGED <<dataChannelOpen, hasSharedSecret, keyExchangeSent>>
    /\ UNCHANGED notRace

NextRace ==
    \/ \E c \in Calls : EnsureConnection(c)
    \/ IncomingOffer
    \/ CreateConnectionDone
    \/ \E c \in Calls : CreateOfferDone(c)
    \/ \E type \in CandidateTypes : IceCandidate(type)
    \/ IceGatheringComplete
    \/ \E state \in {"checking", "connected", "failed"} :
          HandleIceConnectionStateChange(state)
    \/ DataChannelOpen
    \/ ImportPeerPublicKey
    \/ \E c \in Calls : FallbackTimer(c)
    \/ \E c \in Calls : UltimateTimer(c)
    \/ \E c \in Calls : P2PResolved(c)
    \/ \E c \in Calls : P2PRejected(c)

(***************************************************************************)
(* Sending one file to one peer (webrtc.js sendFile, _requestFileTransfer, *)
(* _sendFileDataViaP2P, _sendFileDataViaRelay, handleRelayAck,             *)
(* cancelTransfer).  The sizes are scaled: a chunk holds CHUNK_SIZE bytes  *)
(* and the window WINDOW_SIZE chunks.  The peer holds the key.  A          *)
(* relay-data chunk frame either reaches the peer or is lost on the way;   *)
(* the peer acknowledges chunks that reached it.                           *)
(***************************************************************************)
FileSizes == 0..MaxFileSize

\* Math.ceil(file.size / CHUNK_SIZE)
mathCeil(size, chunkSize) ==
    IF size % chunkSize = 0 THEN size \div chunkSize ELSE size \div chunkSize + 1

\* Math.floor(file.size / CHUNK_SIZE)
mathFloor(size, chunkSize) == size \div chunkSize

\* the number of chunks both senders and _requestFileTransfer announce
totalChunksOf(size, chunkSize) == mathCeil(size, chunkSize)

\* file.slice(offset, offset + CHUNK_SIZE): the number of bytes it holds
sliceLength(size, off) ==
    IF size - off < CHUNK_SIZE THEN size - off ELSE CHUNK_SIZE

\* transferState of _sendFileDataViaRelay; pendingChunks in the order of
\* sentAt, oldest first.  _sendFileDataViaP2P registers the first field only.
NewTransferState == [cancelled |-> FALSE, ackedChunks |-> {}, pendingChunks |-> <<>>]

\* the frames a sender puts on the wire
FileRequestFrame(total) == [type |-> "file-request", totalChunks |-> total]
FileStartFrame(total) == [type |-> "file-start", totalChunks |-> total]
ChunkFrame(index, length, retry) ==
    [type |-> "chunk", index |-> index, length |-> length, retry |-> retry]
FileEndFrame(total) == [type |-> "file-end", totalChunks |-> total]
P2PFileEndFrame == [type |-> "file-end"]
FileCancelFrame == [type |-> "file-cancel"]

InitSendIdle ==
    /\ sender = "idle"
    /\ fileSize = 0
    /\ viaRelay = FALSE
    /\ sendOffset = 0
    /\ sendIndex = 0
    /\ transferState = NewTransferState
    /\ registered = FALSE
    /\ pendingFileRequests = FALSE
    /\ requestTimer = FALSE
    /\ requestOutcomes = <<>>
    /\ ackTimedOut = FALSE
    /\ recentlySent = {}
    /\ wire = <<>>
    /\ arrived = {}
    /\ cancelAt = -1

\* the indices of the chunk frames w2 holds after those of w
ChunksAdded(w, w2) ==
    {w2[k].index : k \in {j \in (Len(w) + 1)..Len(w2) : w2[j].type = "chunk"}}

\* the sender moves to position r.pos with the values of r; leaving the try
\* block runs its finally, activeTransfers.delete(fileId)
Continue(r) ==
    /\ sender' = r.pos
    /\ recentlySent' = IF viaRelay
                       THEN recentlySent \cup ChunksAdded(wire, r.wire)
                       ELSE recentlySent
    /\ transferState' = r.ts
    /\ wire' = r.wire
    /\ arrived' = r.arrived
    /\ registered' = IF r.pos \in {"failed", "done"} THEN FALSE ELSE registered

At(pos, ts, w, arr) == [pos |-> pos, ts |-> ts, wire |-> w, arrived |-> arr]

\* _getOldestPendingChunk
getOldestPendingChunk(ts) == Head(ts.pendingChunks)

\* a send loop without flow control: it goes on to the next chunk however
\* many chunks are pending
RelayWindowOpen(ts, w, arr, arrives, stalled) ==
    IF ackTimedOut /\ stalled /\ sendIndex > 0
    THEN At("failed", ts, w, arr)
    ELSE At("encrypting", ts, w, arr)

\* the flow-control loop of _sendFileDataViaRelay, from its condition to
\* its await or to the await of the chunk's encryption; stalled: the
\* TRANSFER_TIMEOUT has elapsed as well
RelayWindow(ts, w, arr, arrives, stalled) ==
    IF Len(ts.pendingChunks) >= WINDOW_SIZE
    THEN LET oldest == getOldestPendingChunk(ts)
         IN  IF ackTimedOut /\ oldest.retries >= MAX_CHUNK_RETRIES
             THEN At("failed", ts, w, arr)
             ELSE LET ts2 == IF ackTimedOut
                             THEN [ts EXCEPT !.pendingChunks =
                                     Append(Tail(@), [index |-> oldest.index,
                                                      retries |-> oldest.retries + 1])]
                             ELSE ts
                      w2 == IF ackTimedOut
                            THEN Append(w, ChunkFrame(oldest.index,
                                           sliceLength(fileSize, oldest.index * CHUNK_SIZE),
                                           TRUE))
                            ELSE w
                      arr2 == IF ackTimedOut /\ arrives
                              THEN arr \cup {oldest.index} ELSE arr
                  IN  IF ts2.cancelled
                      THEN At("failed", ts2, w2, arr2)
                      ELSE At("windowWait", ts2, w2, arr2)
    ELSE IF ackTimedOut /\ stalled /\ sendIndex > 0
    THEN At("failed", ts, w, arr)
    ELSE At("encrypting", ts, w, arr)

\* the final wait of _sendFileDataViaRelay for the acknowledgements, from
\* its condition to its await or to the await of the extra delay; expired:
\* twice the ACK_TIMEOUT has elapsed since the wait began
RelayFinalWait(ts, w, arr, expired) ==
    IF Cardinality(ts.ackedChunks) < totalChunksOf(fileSize, CHUNK_SIZE)
    THEN IF expired THEN At("extraDelay", ts, w, arr)
         ELSE IF ts.cancelled THEN At("failed", ts, w, arr)
         ELSE At("finalWait", ts, w, arr)
    ELSE At("extraDelay", ts, w, arr)

\* the top of the send loop of _sendFileDataViaRelay
RelayLoop(off, ts, w, arr, arrives, stalled) ==
    IF off < fileSize
    THEN IF ~registered \/ ts.cancelled
         THEN At("failed", ts, w, arr)
         ELSE RelayWindow(ts, w, arr, arrives, stalled)
    ELSE RelayFinalWait(ts, w, arr, FALSE)

\* the top of the send loop of _sendFileDataViaP2P, with the file-end that
\* follows the loop
P2PLoop(off, ts, w, arr) ==
    IF off < fileSize
    THEN IF ~registered \/ ts.cancelled
         THEN At("failed", ts, w, arr)
         ELSE At("encrypting", ts, w, arr)
    ELSE At("done", ts, Append(w, P2PFileEndFrame), arr)

\* the resolve and reject of the entry leave the timer armed
keepRequestTimer(timer) == timer

\* clearTimeout(timeoutId) in the resolve and reject of the entry of
\* pendingFileRequests
clearRequestTimer(timer) == FALSE

\* the entry's resolve or reject: the timer is cleared, the entry deleted,
\* the promise settled
SettleRequest(outcome) ==
    /\ requestTimer' = clearRequestTimer(requestTimer)
    /\ pendingFileRequests' = FALSE
    /\ requestOutcomes' = Append(requestOutcomes, outcome)

\* WebRTCManager.sendFile after ensureConnection, with
\* _requestFileTransfer up to its promise
SendFile ==
    /\ sender = "idle"
    /\ \E size \in FileSizes, relay \in BOOLEAN :
         /\ fileSize' = size
         /\ viaRelay' = relay
         /\ wire' = <<FileRequestFrame(totalChunksOf(size, CHUNK_SIZE))>>
    /\ sender' = "requesting"
    /\ pendingFileRequests' = TRUE
    /\ requestTimer' = TRUE
    /\ UNCHANGED <<sendOffset, sendIndex, transferState, registered, requestOutcomes,
                   ackTimedOut, recentlySent, arrived, cancelAt>>
    /\ UNCHANGED notSend

\* the timeout of _requestFileTransfer
FileRequestTimeout ==
    /\ requestTimer
    /\ requestTimer' = FALSE
    /\ pendingFileRequests' = FALSE
    /\ requestOutcomes' = Append(requestOutcomes, "timeout")
    /\ sender' = IF sender = "requesting" THEN "failed" ELSE sender
    /\ UNCHANGED <<fileSize, viaRelay, sendOffset, sendIndex, transferState, registered,
                   ackTimedOut, recentlySent, wire, arrived, cancelAt>>
    /\ UNCHANGED notSend

\* WebRTCManager.handleFileResponse, then sendFile from the await of
\* _requestFileTransfer into _sendFileDataViaRelay or _sendFileDataViaP2P up
\* to the first await
HandleFileResponse ==
    /\ pendingFileRequests
    /\ \E accepts \in BOOLEAN :
         IF ~accepts
         THEN /\ SettleRequest("declined")
              /\ sender' = "failed"
              /\ UNCHANGED <<transferState, registered, wire, arrived>>
         ELSE /\ SettleRequest("accepted")
              /\ LET w == Append(wire,
                                 FileStartFrame(totalChunksOf(fileSize, CHUNK_SIZE)))
                     r == IF viaRelay
                          THEN IF 0 < fileSize
                               THEN At("encrypting", NewTransferState, w, arrived)
                               ELSE RelayFinalWait(NewTransferState, w, arrived, FALSE)
                          ELSE IF 0 < fileSize
                               THEN At("encrypting", NewTransferState, w, arrived)
                               ELSE At("done", NewTransferState,
                                       Append(w, P2PFileEndFrame), arrived)
                 IN  /\ sender' = r.pos
                     /\ transferState' = r.ts
                     /\ wire' = r.wire
                     /\ arrived' = r.arrived
                     /\ registered' = (r.pos # "done")
    /\ ackTimedOut' = FALSE
    /\ recentlySent' = {}
    /\ UNCHANGED <<fileSize, viaRelay, sendOffset, sendIndex, cancelAt>>
    /\ UNCHANGED notSend

\* CloudDrop.cancelCurrentTransfer with WebRTCManager.cancelTransfer
CancelTransfer ==
    /\ sender \notin {"idle", "done", "failed"}
    /\ cancelAt = -1
    /\ transferState' = IF registered
                        THEN [transferState EXCEPT !.cancelled = TRUE]
                        ELSE transferState
    /\ wire' = Append(wire, FileCancelFrame)
    /\ cancelAt' = Len(wire')
    /\ UNCHANGED <<sender, fileSize, viaRelay, sendOffset, sendIndex, registered,
                   pendingFileRequests, requestTimer, requestOutcomes, ackTimedOut,
                   recentlySent, arrived>>
    /\ UNCHANGED notSend

\* WebRTCManager.handleFileCancel on the sending device: the peer cancelled
PeerFileCancel ==
    /\ sender \notin {"idle", "done", "failed"}
    /\ transferState' = IF registered
                        THEN [transferState EXCEPT !.cancelled = TRUE]
                        ELSE transferState
    /\ IF pendingFileRequests
       THEN /\ SettleRequest("cancelled")
            /\ sender' = "failed"
       ELSE UNCHANGED <<pendingFileRequests, requestTimer, requestOutcomes, sender>>
    /\ UNCHANGED <<fileSize, viaRelay, sendOffset, sendIndex, registered, ackTimedOut,
                   recentlySent, wire, arrived, cancelAt>>
    /\ UNCHANGED notSend

\* the bytes of the chunk are read and encrypted: _sendFileDataViaRelay
\* from encryptChunk to the await of CHUNK_INTERVAL, _sendFileDataViaP2P
\* from encryptChunk through the bufferedAmount test and dc.send to the
\* next await
ResumeEncrypt ==
    /\ sender = "encrypting"
    /\ IF viaRelay
       THEN \E arrives \in BOOLEAN :
              /\ Continue(At("interval",
                     [transferState EXCEPT !.pendingChunks =
                         Append(@, [index |-> sendIndex, retries |-> 0])],
                     Append(wire, ChunkFrame(sendIndex, sliceLength(fileSize, sendOffset),
                                             FALSE)),
                     IF arrives THEN arrived \cup {sendIndex} ELSE arrived))
              /\ sendOffset' = sendOffset + CHUNK_SIZE
              /\ sendIndex' = sendIndex + 1
       ELSE \E buffered \in BOOLEAN :
              IF buffered
              THEN /\ Continue(IF ~registered \/ transferState.cancelled
                               THEN At("failed", transferState, wire, arrived)
                               ELSE At("bufferWait", transferState, wire, arrived))
                   /\ UNCHANGED <<sendOffset, sendIndex>>
              ELSE /\ Continue(P2PLoop(sendOffset + CHUNK_SIZE, transferState,
                         Append(wire, ChunkFrame(sendIndex,
                                                 sliceLength(fileSize, sendOffset), FALSE)),
                         arrived \cup {sendIndex}))
                   /\ sendOffset' = sendOffset + CHUNK_SIZE
                   /\ sendIndex' = sendIndex + 1
    /\ UNCHANGED <<fileSize, viaRelay, pendingFileRequests, requestTimer, requestOutcomes,
                   ackTimedOut, cancelAt>>
    /\ UNCHANGED notSend

\* _sendFileDataViaP2P after the 10 ms wait for dc.bufferedAmount
ResumeBufferWait ==
    /\ sender = "bufferWait"
    /\ \E buffered \in BOOLEAN :
         IF buffered
         THEN /\ Continue(IF ~registered \/ transferState.cancelled
                          THEN At("failed", transferState, wire, arrived)
                          ELSE At("bufferWait", transferState, wire, arrived))
              /\ UNCHANGED <<sendOffset, sendIndex>>
         ELSE /\ Continue(P2PLoop(sendOffset + CHUNK_SIZE, transferState,
                    Append(wire, ChunkFrame(sendIndex,
                                            sliceLength(fileSize, sendOffset), FALSE)),
                    arrived \cup {sendIndex}))
              /\ sendOffset' = sendOffset + CHUNK_SIZE
              /\ sendIndex' = sendIndex + 1
    /\ UNCHANGED <<fileSize, viaRelay, pendingFileRequests, requestTimer, requestOutcomes,
                   ackTimedOut, cancelAt>>
    /\ UNCHANGED notSend

\* _sendFileDataViaRelay after the CHUNK_INTERVAL wait: the top of the loop
ResumeInterval ==
    /\ sender = "interval"
    /\ \E arrives \in BOOLEAN, stalled \in BOOLEAN :
         Continue(RelayLoop(sendOffset, transferState, wire, arrived, arrives, stalled))
    /\ UNCHANGED <<fileSize, viaRelay, sendOffset, sendIndex, pendingFileRequests,
                   requestTimer, requestOutcomes, ackTimedOut, cancelAt>>
    /\ UNCHANGED notSend

\* _sendFileDataViaRelay after the 50 ms wait of the flow-control loop
ResumeWindowWait ==
    /\ sender = "windowWait"
    /\ \E arrives \in BOOLEAN, stalled \in BOOLEAN :
         Continue(RelayWindow(transferState, wire, arrived, arrives, stalled))
    /\ UNCHANGED <<fileSize, viaRelay, sendOffset, sendIndex, pendingFileRequests,
                   requestTimer, requestOutcomes, ackTimedOut, cancelAt>>
    /\ UNCHANGED notSend

\* _sendFileDataViaRelay after the 100 ms wait of the final wait
ResumeFinalWait ==
    /\ sender = "finalWait"
    /\ \E expired \in BOOLEAN :
         Continue(RelayFinalWait(transferState, wire, arrived, expired))
    /\ UNCHANGED <<fileSize, viaRelay, sendOffset, sendIndex, pendingFileRequests,
                   requestTimer, requestOutcomes, ackTimedOut, cancelAt>>
    /\ UNCHANGED notSend

\* _sendFileDataViaRelay after the extra 500 ms delay: file-end
ResumeExtraDelay ==
    /\ sender = "extraDelay"
    /\ Continue(At("done", transferState,
                   Append(wire, FileEndFrame(totalChunksOf(fileSize, CHUNK_SIZE))),
                   arrived))
    /\ UNCHANGED <<fileSize, viaRelay, sendOffset, sendIndex, pendingFileRequests,
                   requestTimer, requestOutcomes, ackTimedOut, cancelAt>>
    /\ UNCHANGED notSend

\* ACK_TIMEOUT elapses since lastAckTime
AckTimeout ==
    /\ viaRelay /\ registered /\ ~ackTimedOut
    /\ ackTimedOut' = TRUE
    /\ UNCHANGED <<sender, fileSize, viaRelay, sendOffset, sendIndex, transferState,
                   registered, pendingFileRequests, requestTimer, requestOutcomes,
                   recentlySent, wire, arrived, cancelAt>>
    /\ UNCHANGED notSend

\* ACK_TIMEOUT elapses since the sentAt of a pending chunk sent after
\* lastAckTime, the one sent first: Date.now() - lastAckTime > ACK_TIMEOUT
\* holds by then
ChunkTimeout ==
    /\ viaRelay /\ registered /\ ackTimedOut
    /\ \E k \in 1..Len(transferState.pendingChunks) :
         /\ transferState.pendingChunks[k].index \in recentlySent
         /\ \A j \in 1..(k - 1) : transferState.pendingChunks[j].index \notin recentlySent
         /\ recentlySent' = recentlySent \ {transferState.pendingChunks[k].index}
    /\ UNCHANGED <<sender, fileSize, viaRelay, sendOffset, sendIndex, transferState,
                   registered, pendingFileRequests, requestTimer, requestOutcomes,
                   ackTimedOut, wire, arrived, cancelAt>>
    /\ UNCHANGED notSend

\* the indices of the pending chunks not among acks, in their order
RemoveAcked(pending, acks) ==
    SelectSeq(pending, LAMBDA p : p.index \notin acks)

\* WebRTCManager.handleRelayAck for an ack frame of the peer, which
\* acknowledges chunks that reached it
HandleRelayAck ==
    /\ viaRelay /\ registered
    /\ \E acks \in SUBSET arrived :
         /\ acks \ transferState.ackedChunks # {}
         /\ transferState' =
               [transferState EXCEPT !.ackedChunks = @ \cup acks,
                                     !.pendingChunks = RemoveAcked(@, acks)]
    /\ ackTimedOut' = FALSE
    /\ recentlySent' = {}
    /\ UNCHANGED <<sender, fileSize, viaRelay, sendOffset, sendIndex, registered,
                   pendingFileRequests, requestTimer, requestOutcomes, wire, arrived, cancelAt>>
    /\ UNCHANGED notSend

NextSend ==
    \/ SendFile
    \/ FileRequestTimeout
    \/ HandleFileResponse
    \/ CancelTransfer
    \/ PeerFileCancel
    \/ ResumeEncrypt
    \/ ResumeBufferWait
    \/ ResumeInterval
    \/ ResumeWindowWait
    \/ ResumeFinalWait
    \/ ResumeExtraDelay
    \/ AckTimeout
    \/ ChunkTimeout
    \/ HandleRelayAck

(***************************************************************************)
(* Receiving the chunk stream of one accepted file (webrtc.js              *)
(* handleMessage and handleRelayData), with the decryption of a chunk as   *)
(* the suspension point it is: channel.onmessage and the signaling         *)
(* dispatcher start a handler per frame and do not wait for it.  The       *)
(* sender is the one of this program: file-start, the chunks 0..n-1, then  *)
(* file-end; on the relay path a chunk frame can be lost or arrive again   *)
(* as a retransmission.  Decryptions complete in the order they began.     *)
(***************************************************************************)
StreamChunks == 0..MaxStreamChunks

\* the decrypted bytes of chunk i of the file
Plain(i) == [chunk |-> i]

\* the transfer object CloudDrop.acceptFileRequest creates; on the direct
\* path chunks is the array that push appends to
AcceptedTransfer(n) ==
    [totalChunks |-> n, chunks |-> <<>>, slots |-> [i \in 0..(n - 1) |-> Nil],
     receivedIndices |-> {}, pendingAcks |-> <<>>]

\* the chunk goes to the first free slot instead
placeAtFirstFree(slots, index, bytes) ==
    IF \E i \in DOMAIN slots : slots[i] = Nil
    THEN LET free == CHOOSE i \in DOMAIN slots :
                        slots[i] = Nil /\ \A j \in DOMAIN slots : slots[j] = Nil => i <= j
         IN  [slots EXCEPT ![free] = bytes]
    ELSE slots

\* transfer.chunks[chunkIndex] = new Uint8Array(decrypted)
placeChunk(slots, index, bytes) == [slots EXCEPT ![index] = bytes]

\* orderedChunks of the relay file-end handler: the slots that are filled,
\* in index order
RECURSIVE orderedChunks(_, _, _)
orderedChunks(slots, i, expectedCount) ==
    IF i >= expectedCount THEN <<>>
    ELSE (IF i \in DOMAIN slots /\ slots[i] # Nil THEN <<slots[i]>> ELSE <<>>)
         \o orderedChunks(slots, i + 1, expectedCount)

\* the missing list of the relay file-end handler, built only when the
\* counts differ
missingChunks(receivedIndices, expectedCount) ==
    IF Cardinality(receivedIndices) # expectedCount
    THEN {i \in 0..(expectedCount - 1) : i \notin receivedIndices}
    ELSE {}

InitRecvIdle ==
    /\ rcvRelay = FALSE
    /\ rcvTotal = 0
    /\ rcvPhase = "idle"
    /\ rcvSent = 0
    /\ rcvCopies = [i \in 0..(MaxStreamChunks - 1) |-> 0]
    /\ rcvTransfer = Nil
    /\ decryptJobs = <<>>
    /\ graceWait = FALSE
    /\ delivered = Nil
    /\ decryptFailed = FALSE
    /\ placedTwice = FALSE
    /\ rcvAcks = {}

\* the relay file-end handler from the end of its wait, or without a wait:
\* the missing list, the blob, onFileReceived, the cleanup
CompleteRelay(transfer) ==
    /\ delivered' = [output |-> orderedChunks(transfer.slots, 0, transfer.totalChunks),
                     missing |-> missingChunks(transfer.receivedIndices,
                                               transfer.totalChunks)]
    /\ rcvTransfer' = Nil
    /\ graceWait' = FALSE

\* WebRTCManager.handleMessage, file-start for the confirmed transfer
MessageFileStart ==
    /\ ~rcvRelay /\ rcvPhase = "start"
    /\ rcvPhase' = "chunks"
    /\ UNCHANGED <<placedTwice, rcvRelay, rcvTotal, rcvSent, rcvCopies, rcvTransfer, decryptJobs,
                   graceWait, delivered, decryptFailed, rcvAcks>>
    /\ UNCHANGED notRecv

\* WebRTCManager.handleMessage, a binary chunk, up to the await of
\* decryptChunk; the channel delivers the chunks in the order sent
MessageChunk ==
    /\ ~rcvRelay /\ rcvPhase = "chunks"
    /\ rcvSent < rcvTotal
    /\ rcvSent' = rcvSent + 1
    /\ decryptJobs' = IF rcvTransfer # Nil THEN Append(decryptJobs, rcvSent)
                      ELSE decryptJobs
    /\ UNCHANGED <<placedTwice, rcvRelay, rcvTotal, rcvPhase, rcvCopies, rcvTransfer, graceWait,
                   delivered, decryptFailed, rcvAcks>>
    /\ UNCHANGED notRecv

\* WebRTCManager.handleMessage, a binary chunk, from the end of
\* decryptChunk, which returns the bytes or throws; the handler keeps the
\* transfer object it read, also after the map dropped it
MessageChunkDecrypted ==
    /\ ~rcvRelay /\ decryptJobs # <<>>
    /\ decryptJobs' = Tail(decryptJobs)
    /\ \E decrypts \in BOOLEAN :
         IF decrypts
         THEN /\ rcvTransfer' = IF rcvTransfer # Nil
                                THEN [rcvTransfer EXCEPT !.chunks =
                                        Append(@, Plain(Head(decryptJobs)))]
                                ELSE rcvTransfer
              /\ UNCHANGED decryptFailed
         ELSE /\ decryptFailed' = (decryptFailed \/ rcvTransfer # Nil)
              /\ UNCHANGED rcvTransfer
    /\ UNCHANGED <<placedTwice, rcvRelay, rcvTotal, rcvPhase, rcvSent, rcvCopies, graceWait,
                   delivered, rcvAcks>>
    /\ UNCHANGED notRecv

\* WebRTCManager.handleMessage, file-end; the sender sends it after its
\* last chunk
MessageFileEnd ==
    /\ ~rcvRelay /\ rcvPhase = "chunks"
    /\ rcvSent = rcvTotal
    /\ rcvPhase' = "ended"
    /\ IF rcvTransfer # Nil
       THEN /\ delivered' = [output |-> rcvTransfer.chunks]
            /\ rcvTransfer' = Nil
       ELSE UNCHANGED <<delivered, rcvTransfer>>
    /\ UNCHANGED <<placedTwice, rcvRelay, rcvTotal, rcvSent, rcvCopies, decryptJobs, graceWait,
                   decryptFailed, rcvAcks>>
    /\ UNCHANGED notRecv

\* WebRTCManager.handleRelayData, file-start for the confirmed transfer:
\* the chunks are reset
RelayFileStart ==
    /\ rcvRelay /\ rcvPhase = "start"
    /\ rcvPhase' = "chunks"
    /\ rcvTransfer' = AcceptedTransfer(rcvTotal)
    /\ UNCHANGED <<placedTwice, rcvRelay, rcvTotal, rcvSent, rcvCopies, decryptJobs, graceWait,
                   delivered, decryptFailed, rcvAcks>>
    /\ UNCHANGED notRecv

\* WebRTCManager.handleRelayData, chunk, up to the await of decryptChunk: a
\* first copy or a retransmitted one; the frames still come after the
\* sender's file-end was handled, while a copy is on its way
RelayChunk ==
    /\ rcvRelay /\ rcvPhase \in {"chunks", "ended"}
    /\ \E index \in 0..(rcvTotal - 1) :
         /\ rcvCopies[index] < MaxCopies
         /\ rcvCopies' = [rcvCopies EXCEPT ![index] = @ + 1]
         /\ IF rcvTransfer = Nil
            THEN UNCHANGED <<decryptJobs, rcvAcks>>
            ELSE IF index \in rcvTransfer.receivedIndices
            THEN /\ rcvAcks' = rcvAcks \cup {index}
                 /\ UNCHANGED decryptJobs
            ELSE /\ decryptJobs' = Append(decryptJobs, index)
                 /\ UNCHANGED rcvAcks
    /\ UNCHANGED <<placedTwice, rcvRelay, rcvTotal, rcvPhase, rcvSent, rcvTransfer, graceWait,
                   delivered, decryptFailed>>
    /\ UNCHANGED notRecv

\* WebRTCManager.handleRelayData, chunk, from the end of decryptChunk: the
\* chunk is placed, marked received and acknowledged in a batch; a failure
\* is caught and logged
RelayChunkDecrypted ==
    /\ rcvRelay /\ decryptJobs # <<>>
    /\ decryptJobs' = Tail(decryptJobs)
    /\ \E decrypts \in BOOLEAN :
         IF decrypts
         THEN /\ UNCHANGED decryptFailed
              /\ IF rcvTransfer = Nil
                 THEN UNCHANGED <<rcvTransfer, rcvAcks, placedTwice>>
                 ELSE LET index == Head(decryptJobs)
                          pendingAcks == Append(rcvTransfer.pendingAcks, index)
                          flush == Len(pendingAcks) >= ACK_BATCH_SIZE
                      IN  /\ placedTwice' = (placedTwice
                                             \/ index \in rcvTransfer.receivedIndices)
                          /\ rcvTransfer' =
                                [rcvTransfer EXCEPT
                                   !.slots = placeChunk(@, index, Plain(index)),
                                   !.receivedIndices = @ \cup {index},
                                   !.pendingAcks = IF flush THEN <<>> ELSE pendingAcks]
                          /\ rcvAcks' = IF flush
                                        THEN rcvAcks \cup {pendingAcks[k] :
                                                             k \in 1..Len(pendingAcks)}
                                        ELSE rcvAcks
         ELSE /\ decryptFailed' = (decryptFailed \/ rcvTransfer # Nil)
              /\ UNCHANGED <<rcvTransfer, rcvAcks, placedTwice>>
    /\ UNCHANGED <<rcvRelay, rcvTotal, rcvPhase, rcvSent, rcvCopies, graceWait,
                   delivered>>
    /\ UNCHANGED notRecv

\* WebRTCManager.handleRelayData, file-end, up to its wait for missing
\* chunks or, when none is missing, to its end
RelayFileEnd ==
    /\ rcvRelay /\ rcvPhase = "chunks"
    /\ rcvPhase' = "ended"
    /\ IF rcvTransfer = Nil
       THEN UNCHANGED <<rcvTransfer, graceWait, delivered, rcvAcks>>
       ELSE LET flushed == [rcvTransfer EXCEPT !.pendingAcks = <<>>]
            IN  /\ rcvAcks' = rcvAcks \cup {rcvTransfer.pendingAcks[k] :
                                             k \in 1..Len(rcvTransfer.pendingAcks)}
                /\ IF Cardinality(rcvTransfer.receivedIndices) < rcvTransfer.totalChunks
                   THEN /\ rcvTransfer' = flushed
                        /\ graceWait' = TRUE
                        /\ UNCHANGED delivered
                   ELSE CompleteRelay(flushed)
    /\ UNCHANGED <<placedTwice, rcvRelay, rcvTotal, rcvSent, rcvCopies, decryptJobs, decryptFailed>>
    /\ UNCHANGED notRecv

\* WebRTCManager.handleRelayData, file-end, from the end of its wait: the
\* chunks are there or three seconds passed
RelayFileEndResume ==
    /\ graceWait
    /\ CompleteRelay(rcvTransfer)
    /\ UNCHANGED <<placedTwice, rcvRelay, rcvTotal, rcvPhase, rcvSent, rcvCopies, decryptJobs,
                   decryptFailed, rcvAcks>>
    /\ UNCHANGED notRecv

NextRecv ==
    \/ MessageFileStart
    \/ MessageChunk
    \/ MessageChunkDecrypted
    \/ MessageFileEnd
    \/ RelayFileStart
    \/ RelayChunk
    \/ RelayChunkDecrypted
    \/ RelayFileEnd
    \/ RelayFileEndResume

(***************************************************************************)
(* The state one client keeps about one remote peer, over peer-left and    *)
(* over reconnects to the hub (app.js connectWebSocket, removePeer;        *)
(* webrtc.js closeConnection, closeAll, the relay switch and the           *)
(* background retry).  connectWebSocket builds a new WebRTCManager on      *)
(* every call, so the client has one manager per call; the peer            *)
(* connections and timers of an earlier manager live on.  cryptoManager    *)
(* is shared by all of them.  One connection attempt and one transfer      *)
(* with the peer are in progress at a time.                                *)
(***************************************************************************)
\* what a new WebRTCManager holds about the peer
NewManager ==
    [connection |-> FALSE,          \* connections.has(peerId)
     attempt |-> "none",            \* the connection attempt in progress: the race
                                    \* of ensureConnection ("raceCreating",
                                    \* "raceArmed") or _attemptSilentP2PReconnect
                                    \* ("retryCreating", "retryWaiting")
     disconnectedTimer |-> FALSE,   \* disconnectedTimers.has(peerId)
     p2pRetryTimer |-> FALSE,       \* p2pRetryTimers.has(peerId)
     iceRestartCounts |-> FALSE,    \* iceRestartCounts.has(peerId)
     relayMode |-> FALSE,           \* relayMode.get(peerId)
     transfer |-> "none"]           \* "requested": in pendingFileRequests,
                                    \* "sending": in activeTransfers,
                                    \* "receiving": in incomingTransfers

\* this.webrtc
Current == Len(webrtc)

InitLifeIdle ==
    /\ ws = "connecting"
    /\ peers = FALSE
    /\ peerLeft = FALSE
    /\ webrtc = <<NewManager>>
    /\ peerSecret = FALSE

\* WebRTCManager._switchToRelay with _startBackgroundP2PRetry
SwitchedToRelay(m) ==
    IF m.relayMode THEN m
    ELSE [m EXCEPT !.relayMode = TRUE, !.p2pRetryTimer = TRUE]

\* WebRTCManager.closeConnection, its effect on the manager's maps
ClosedConnection(m) ==
    [m EXCEPT !.disconnectedTimer = FALSE,
              !.p2pRetryTimer = FALSE,
              !.connection = FALSE,
              !.iceRestartCounts = FALSE,
              !.relayMode = FALSE]

\* WebRTCManager.closeAll: closeConnection for the keys of connections
ClosedAll(m) == IF m.connection THEN ClosedConnection(m) ELSE m

\* the step changes manager g to m and nothing else
OnlyManager(g, m) ==
    /\ webrtc' = [webrtc EXCEPT ![g] = m]
    /\ UNCHANGED <<ws, peers, peerLeft, peerSecret>>
    /\ UNCHANGED notLife

\* ws.onopen: the peers are cleared, closeAll runs on this.webrtc, the
\* client joins
WsOpen ==
    /\ ws = "connecting"
    /\ ws' = "open"
    /\ peers' = FALSE
    /\ webrtc' = [webrtc EXCEPT ![Current] = ClosedAll(@)]
    /\ peerSecret' = (peerSecret /\ ~webrtc[Current].connection)
    /\ UNCHANGED peerLeft
    /\ UNCHANGED notLife

\* the hub lists the peer: 'joined' with the peer list, or 'peer-joined'
AddPeer ==
    /\ ws = "open" /\ ~peers /\ ~peerLeft
    /\ peers' = TRUE
    /\ UNCHANGED <<ws, peerLeft, webrtc, peerSecret>>
    /\ UNCHANGED notLife

\* 'peer-left': CloudDrop.removePeer with closeConnection
RemovePeer ==
    /\ ws = "open" /\ peers
    /\ peers' = FALSE
    /\ peerLeft' = TRUE
    /\ webrtc' = [webrtc EXCEPT ![Current] = ClosedConnection(@)]
    /\ peerSecret' = FALSE
    /\ UNCHANGED ws
    /\ UNCHANGED notLife

\* ws.onclose: with 4001 or 4002 the client stays disconnected, otherwise it
\* arms the reconnect; the hub accepts every upgrade before it closes
WsClose(code) ==
    /\ ws = "open"
    /\ ws' = IF code \in {CloseRequired, CloseIncorrect} THEN "rejected" ELSE "closed"
    /\ UNCHANGED <<peers, peerLeft, webrtc, peerSecret>>
    /\ UNCHANGED notLife

\* the reconnect timer: connectWebSocket, which makes a new WebSocket and a
\* new WebRTCManager
ConnectWebSocket ==
    /\ ws = "closed"
    /\ Len(webrtc) < MaxConnects
    /\ ws' = "connecting"
    /\ webrtc' = Append(webrtc, NewManager)
    /\ UNCHANGED <<peers, peerLeft, peerSecret>>
    /\ UNCHANGED notLife

\* ensureConnection starts a race and createConnection, up to the await of
\* the ICE servers
StartRace ==
    /\ peers
    /\ webrtc[Current].attempt = "none"
    /\ ~webrtc[Current].connection /\ ~webrtc[Current].relayMode
    /\ OnlyManager(Current, [webrtc[Current] EXCEPT !.attempt = "raceCreating"])

\* createConnection from the return of the ICE servers: the connection is
\* stored
RaceConnectionCreated(g) ==
    /\ webrtc[g].attempt = "raceCreating"
    /\ OnlyManager(g, [webrtc[g] EXCEPT !.attempt = "raceArmed", !.connection = TRUE])

\* the fallback or the ultimate timer of the race fires while the race is
\* unresolved
RaceTimer(g) ==
    /\ webrtc[g].attempt = "raceArmed"
    /\ OnlyManager(g, SwitchedToRelay([webrtc[g] EXCEPT !.attempt = "none"]))

\* the direct attempt of the race resolves: channel open and key derived
RaceResolved(g) ==
    /\ webrtc[g].attempt = "raceArmed" /\ webrtc[g].connection
    /\ g = Current /\ peers
    /\ webrtc' = [webrtc EXCEPT ![g].attempt = "none"]
    /\ peerSecret' = TRUE
    /\ UNCHANGED <<ws, peers, peerLeft>>
    /\ UNCHANGED notLife

\* _handleIceConnectionStateChange, 'disconnected': the timer is armed
IceDisconnected(g) ==
    /\ webrtc[g].connection
    /\ OnlyManager(g, [webrtc[g] EXCEPT !.disconnectedTimer = TRUE])

\* the disconnected timer fires with the connection still disconnected
DisconnectedTimer(g) ==
    /\ webrtc[g].disconnectedTimer
    /\ OnlyManager(g, SwitchedToRelay([webrtc[g] EXCEPT !.disconnectedTimer = FALSE]))

\* _handleIceConnectionStateChange, 'failed': an ICE restart, counted, or
\* the switch to relay
IceFailed(g) ==
    /\ webrtc[g].connection
    /\ \E restart \in BOOLEAN :
         OnlyManager(g, IF restart
                        THEN [webrtc[g] EXCEPT !.disconnectedTimer = FALSE,
                                               !.iceRestartCounts = TRUE]
                        ELSE SwitchedToRelay([webrtc[g] EXCEPT
                                                !.disconnectedTimer = FALSE]))

\* _handleIceConnectionStateChange, 'connected'
IceConnected(g) ==
    /\ webrtc[g].connection
    /\ g = Current /\ peers
    /\ OnlyManager(g, [webrtc[g] EXCEPT !.disconnectedTimer = FALSE,
                                        !.iceRestartCounts = FALSE,
                                        !.relayMode = FALSE])

\* the background retry timer: _attemptSilentP2PReconnect up to the await
\* of createConnection
RetryTimer(g) ==
    /\ webrtc[g].p2pRetryTimer
    /\ webrtc[g].attempt = "none"
    /\ OnlyManager(g, IF ~webrtc[g].relayMode
                      THEN [webrtc[g] EXCEPT !.p2pRetryTimer = FALSE]
                      ELSE [webrtc[g] EXCEPT !.connection = FALSE,
                                             !.iceRestartCounts = FALSE,
                                             !.attempt = "retryCreating"])

\* createConnection of the silent attempt returns: the connection is stored
ReconnectCreated(g) ==
    /\ webrtc[g].attempt = "retryCreating"
    /\ OnlyManager(g, [webrtc[g] EXCEPT !.connection = TRUE, !.attempt = "retryWaiting"])

\* the silent attempt succeeds or fails
ReconnectSettled(g) ==
    /\ webrtc[g].attempt = "retryWaiting"
    /\ \E succeeded \in BOOLEAN :
         /\ succeeded => (g = Current /\ peers /\ webrtc[g].connection)
         /\ OnlyManager(g, IF succeeded
                           THEN [webrtc[g] EXCEPT !.attempt = "none",
                                                  !.relayMode = FALSE,
                                                  !.p2pRetryTimer = FALSE]
                           ELSE [webrtc[g] EXCEPT !.attempt = "none",
                                                  !.p2pRetryTimer = @ \/ webrtc[g].relayMode])

\* _requestFileTransfer stores the pending request
RequestFileTransfer ==
    /\ peers /\ ws = "open"
    /\ webrtc[Current].transfer = "none"
    /\ OnlyManager(Current, [webrtc[Current] EXCEPT !.transfer = "requested"])

\* the request is answered or times out; an accepted transfer is registered
\* in activeTransfers by the send
FileRequestSettled(g) ==
    /\ webrtc[g].transfer = "requested"
    /\ \E accept \in BOOLEAN :
         /\ accept => (g = Current /\ peers /\ ws = "open")
         /\ OnlyManager(g, [webrtc[g] EXCEPT !.transfer =
                                               IF accept THEN "sending" ELSE "none"])

\* the send loop ends: activeTransfers.delete(fileId)
SendEnded(g) ==
    /\ webrtc[g].transfer = "sending"
    /\ OnlyManager(g, [webrtc[g] EXCEPT !.transfer = "none"])

\* acceptFileRequest stores the incoming transfer of the peer's file
IncomingAccepted ==
    /\ peers /\ ws = "open"
    /\ webrtc[Current].transfer = "none"
    /\ OnlyManager(Current, [webrtc[Current] EXCEPT !.transfer = "receiving"])

\* the peer's file-end reaches this.webrtc
IncomingEnded ==
    /\ peers
    /\ webrtc[Current].transfer = "receiving"
    /\ OnlyManager(Current, [webrtc[Current] EXCEPT !.transfer = "none"])

NextLife ==
    \/ WsOpen
    \/ AddPeer
    \/ RemovePeer
    \/ \E code \in {1006, CloseRequired, CloseIncorrect} : WsClose(code)
    \/ ConnectWebSocket
    \/ StartRace
    \/ \E g \in DOMAIN webrtc : RaceConnectionCreated(g)
    \/ \E g \in DOMAIN webrtc : RaceTimer(g)
    \/ \E g \in DOMAIN webrtc : RaceResolved(g)
    \/ \E g \in DOMAIN webrtc : IceDisconnected(g)
    \/ \E g \in DOMAIN webrtc : DisconnectedTimer(g)
    \/ \E g \in DOMAIN webrtc : IceFailed(g)
    \/ \E g \in DOMAIN webrtc : IceConnected(g)
    \/ \E g \in DOMAIN webrtc : RetryTimer(g)
    \/ \E g \in DOMAIN webrtc : ReconnectCreated(g)
    \/ \E g \in DOMAIN webrtc : ReconnectSettled(g)
    \/ RequestFileTransfer
    \/ \E g \in DOMAIN webrtc : FileRequestSettled(g)
    \/ \E g \in DOMAIN webrtc : SendEnded(g)
    \/ IncomingAccepted
    \/ IncomingEnded

(***************************************************************************)
(* Prewarming the connection to a peer that was just listed (webrtc.js     *)
(* prewarmConnection, _raceP2PWithFallbackSilent,                          *)
(* _attemptP2PConnectionSilent).  The prewarm works on the maps of the     *)
(* connection racing and on the same peer connection, whose ICE events     *)
(* are handled as always; no transfer is asked for.                        *)
(***************************************************************************)
\* the racing state, the attempt and the timers of the prewarm
PrewarmRace == 1

InitPrewarmIdle == prewarm = "idle"

\* the race of the prewarm settles: its finally clears connectionRacing
SettlePrewarm(result) ==
    IF prewarm = "racing"
    THEN /\ prewarm' = result
         /\ connectionRacing' = 0
    ELSE UNCHANGED <<prewarm, connectionRacing>>

\* WebRTCManager.prewarmConnection: the peer is noted and the timer armed
PrewarmConnection ==
    /\ prewarm = "idle"
    /\ prewarm' = "scheduled"
    /\ UNCHANGED <<raceVars, linkVars>>
    /\ UNCHANGED notPrewarm

\* the timer of prewarmConnection, with the start of
\* _raceP2PWithFallbackSilent, _attemptP2PConnectionSilent and
\* createConnection up to the await of the ICE servers
PrewarmTimer ==
    /\ prewarm = "scheduled"
    /\ IF ~pcExists /\ pendingConnections = None /\ ~relayMode
       THEN /\ prewarm' = "racing"
            /\ racingState' = [racingState EXCEPT ![PrewarmRace] = NewRacingState]
            /\ connectionRacing' = PrewarmRace
            /\ fallbackTimer' = [fallbackTimer EXCEPT ![PrewarmRace] = "armed"]
            /\ ultimateTimer' = [ultimateTimer EXCEPT ![PrewarmRace] = "armed"]
            /\ attempt' = [attempt EXCEPT ![PrewarmRace] = "createConnection"]
            /\ creating' = TRUE
            /\ pendingConnections' = "createConnection"
       ELSE /\ prewarm' = "skipped"
            /\ UNCHANGED <<racingState, connectionRacing, fallbackTimer, ultimateTimer,
                           attempt, creating, pendingConnections>>
    /\ UNCHANGED <<pcExists, candidateTypes, gatheringComplete, connectionQuality,
                   iceConnectionState, iceRestartCounts, channelPending, call, awaits,
                   racePromise, returnedOk>>
    /\ UNCHANGED linkVars
    /\ UNCHANGED notPrewarm

\* the fallbackTimer of _raceP2PWithFallbackSilent fires: the race is
\* rejected, the peer is not marked as relay
PrewarmFallbackTimer ==
    /\ fallbackTimer[PrewarmRace] = "armed"
    /\ prewarm \in {"racing", "p2p", "failed"}
    /\ fallbackTimer' = [fallbackTimer EXCEPT ![PrewarmRace] = "fired"]
    /\ IF /\ ~racingState[PrewarmRace].resolved
          /\ shouldFallback(connectionQuality, candidateTypes, pcExists,
                            iceConnectionState)
       THEN SettlePrewarm("failed")
       ELSE UNCHANGED <<prewarm, connectionRacing>>
    /\ UNCHANGED <<pcExists, creating, pendingConnections, candidateTypes,
                   gatheringComplete, connectionQuality, iceConnectionState,
                   iceRestartCounts, channelPending, call, awaits, attempt,
                   racingState, racePromise, ultimateTimer, returnedOk>>
    /\ UNCHANGED linkVars
    /\ UNCHANGED notPrewarm

\* the ultimateTimer of _raceP2PWithFallbackSilent fires
PrewarmUltimateTimer ==
    /\ ultimateTimer[PrewarmRace] = "armed"
    /\ fallbackTimer[PrewarmRace] # "armed"
    /\ prewarm \in {"racing", "p2p", "failed"}
    /\ ultimateTimer' = [ultimateTimer EXCEPT ![PrewarmRace] = "fired"]
    /\ IF ~racingState[PrewarmRace].resolved
       THEN SettlePrewarm("failed")
       ELSE UNCHANGED <<prewarm, connectionRacing>>
    /\ UNCHANGED <<pcExists, creating, pendingConnections, candidateTypes,
                   gatheringComplete, connectionQuality, iceConnectionState,
                   iceRestartCounts, channelPending, call, awaits, attempt,
                   racingState, racePromise, fallbackTimer, returnedOk>>
    /\ UNCHANGED linkVars
    /\ UNCHANGED notPrewarm

\* waitForChannel and waitForEncryptionKey both resolve: the then-branches
\* of p2pPromise in _raceP2PWithFallbackSilent
PrewarmResolved ==
    /\ prewarm \in {"racing", "failed"}
    /\ attempt[PrewarmRace] = "waiting"
    /\ dataChannelOpen /\ hasSharedSecret
    /\ attempt' = [attempt EXCEPT ![PrewarmRace] = "resolved"]
    /\ racingState' = [racingState EXCEPT ![PrewarmRace] =
                         IF @.resolved THEN @ ELSE [resolved |-> TRUE, winner |-> "p2p"]]
    /\ fallbackTimer' = ClearTimers(fallbackTimer, PrewarmRace)
    /\ ultimateTimer' = ClearTimers(ultimateTimer, PrewarmRace)
    /\ SettlePrewarm("p2p")
    /\ UNCHANGED <<pcExists, creating, pendingConnections, candidateTypes,
                   gatheringComplete, connectionQuality, iceConnectionState,
                   iceRestartCounts, channelPending, call, awaits, racePromise,
                   returnedOk>>
    /\ UNCHANGED linkVars
    /\ UNCHANGED notPrewarm

\* waitForChannel or waitForEncryptionKey rejects, on its own timeout or on
\* a failed connection: the catch-branches of p2pPromise, which rethrow
PrewarmRejected ==
    /\ prewarm \in {"racing", "failed"}
    /\ attempt[PrewarmRace] = "waiting"
    /\ ~(dataChannelOpen /\ hasSharedSecret)
    /\ \/ ultimateTimer[PrewarmRace] = "fired"
       \/ iceConnectionState = "failed" /\ ~dataChannelOpen
    /\ attempt' = [attempt EXCEPT ![PrewarmRace] = "rejected"]
    /\ fallbackTimer' = ClearTimers(fallbackTimer, PrewarmRace)
    /\ ultimateTimer' = ClearTimers(ultimateTimer, PrewarmRace)
    /\ SettlePrewarm("failed")
    /\ UNCHANGED <<pcExists, creating, pendingConnections, candidateTypes,
                   gatheringComplete, connectionQuality, iceConnectionState,
                   iceRestartCounts, channelPending, call, awaits, racingState,
                   racePromise, returnedOk>>
    /\ UNCHANGED linkVars
    /\ UNCHANGED notPrewarm

NextPrewarm ==
    \/ PrewarmConnection
    \/ PrewarmTimer
    \/ PrewarmFallbackTimer
    \/ PrewarmUltimateTimer
    \/ PrewarmResolved
    \/ PrewarmRejected
    \/ IncomingOffer
    \/ CreateConnectionDone
    \/ CreateOfferDone(PrewarmRace)
    \/ \E type \in CandidateTypes : IceCandidate(type)
    \/ IceGatheringComplete
    \/ \E state \in {"checking", "connected", "failed"} :
          HandleIceConnectionStateChange(state)
    \/ DataChannelOpen
    \/ ImportPeerPublicKey

(***************************************************************************)
(* The room password on the client (crypto.js setRoomPassword,             *)
(* clearRoomPassword; app.js createSecureRoom, joinSecureRoom).  A         *)
(* password is its length; one createSecureRoom or joinSecureRoom runs at  *)
(* a time, suspended at its awaits.                                        *)
(***************************************************************************)
PasswordLengths == 0..MaxPasswordLen

\* no room code, one that fails ROOM.CODE_PATTERN, one that matches it
RoomCodes == {"", "room-1", "ROOM01"}

\* ROOM.CODE_PATTERN.test(roomCode)
CodePatternTest(roomCode) == roomCode = "ROOM01"

\* deriveRoomKeyFromPassword(password, roomCode)
deriveRoomKeyFromPassword(password, roomCode) ==
    [password |-> password, roomCode |-> roomCode]

\* the test at the head of CryptoManager.setRoomPassword
setRoomPasswordThrows(password, roomCode) == password = 0 \/ roomCode = ""

NoRoomOp == [op |-> "none", password |-> 0, roomCode |-> "", stage |-> "idle"]

InitRoomIdle ==
    /\ roomOp = NoRoomOp
    /\ clientRoomKey = Nil
    /\ isSecureRoom = FALSE
    /\ roomResult = "none"

\* the call in progress returns result
RoomReturn(result) ==
    /\ roomOp' = NoRoomOp
    /\ roomResult' = result

\* CloudDrop.createSecureRoom up to the await of hashPasswordForServer
CreateSecureRoom(password, roomCode) ==
    /\ roomOp.stage = "idle"
    /\ IF password = 0 \/ password < PASSWORD_MIN_LENGTH \/ ~CodePatternTest(roomCode)
       THEN RoomReturn("false")
       ELSE /\ roomOp' = [op |-> "create", password |-> password, roomCode |-> roomCode,
                          stage |-> "hash"]
            /\ roomResult' = "none"
    /\ UNCHANGED <<clientRoomKey, isSecureRoom>>
    /\ UNCHANGED notRoom

\* createSecureRoom from the hash to the await of the fetch
CreateHashed ==
    /\ roomOp.op = "create" /\ roomOp.stage = "hash"
    /\ roomOp' = [roomOp EXCEPT !.stage = "fetch"]
    /\ UNCHANGED <<clientRoomKey, isSecureRoom, roomResult>>
    /\ UNCHANGED notRoom

\* createSecureRoom from the answer of /api/room/set-password to the await
\* of deriveRoomKeyFromPassword inside setRoomPassword
CreateFetched(success) ==
    /\ roomOp.op = "create" /\ roomOp.stage = "fetch"
    /\ IF success /\ ~setRoomPasswordThrows(roomOp.password, roomOp.roomCode)
       THEN /\ roomOp' = [roomOp EXCEPT !.stage = "derive"]
            /\ UNCHANGED roomResult
       ELSE RoomReturn("false")
    /\ UNCHANGED <<clientRoomKey, isSecureRoom>>
    /\ UNCHANGED notRoom

\* CloudDrop.joinSecureRoom up to the await of hashPasswordForServer
JoinSecureRoom(password, roomCode) ==
    /\ roomOp.stage = "idle"
    /\ IF password = 0
       THEN RoomReturn("false")
       ELSE /\ roomOp' = [op |-> "join", password |-> password, roomCode |-> roomCode,
                          stage |-> "hash"]
            /\ roomResult' = "none"
    /\ UNCHANGED <<clientRoomKey, isSecureRoom>>
    /\ UNCHANGED notRoom

\* joinSecureRoom from the hash to the await of deriveRoomKeyFromPassword
\* inside setRoomPassword, or to its catch
JoinHashed ==
    /\ roomOp.op = "join" /\ roomOp.stage = "hash"
    /\ IF setRoomPasswordThrows(roomOp.password, roomOp.roomCode)
       THEN RoomReturn("false")
       ELSE /\ roomOp' = [roomOp EXCEPT !.stage = "derive"]
            /\ UNCHANGED roomResult
    /\ UNCHANGED <<clientRoomKey, isSecureRoom>>
    /\ UNCHANGED notRoom

\* setRoomPassword from the derived key to its end, and its caller to its
\* return
SetRoomPassword ==
    /\ roomOp.stage = "derive"
    /\ clientRoomKey' = deriveRoomKeyFromPassword(roomOp.password, roomOp.roomCode)
    /\ isSecureRoom' = TRUE
    /\ RoomReturn("true")
    /\ UNCHANGED notRoom

\* CloudDrop.clearRoomPassword with CryptoManager.clearRoomPassword
ClearRoomPassword ==
    /\ clientRoomKey' = Nil
    /\ isSecureRoom' = FALSE
    /\ UNCHANGED <<roomOp, roomResult>>
    /\ UNCHANGED notRoom

NextRoom ==
    \/ \E password \in PasswordLengths, roomCode \in RoomCodes :
          CreateSecureRoom(password, roomCode)
    \/ CreateHashed
    \/ \E success \in BOOLEAN : CreateFetched(success)
    \/ \E password \in PasswordLengths, roomCode \in RoomCodes :
          JoinSecureRoom(password, roomCode)
    \/ JoinHashed
    \/ SetRoomPassword
    \/ ClearRoomPassword

(***************************************************************************)
(* ICE recovery of one device about one peer (app.js                       *)
(* _handleIceConnectionStateChange, _handleConnectionStateChange,          *)
(* _attemptIceRestart, _switchToRelay, the background P2P retry,           *)
(* setupDataChannel's onopen, handleRelayData's entry and closeConnection).*)
(* The device has at most one live RTCPeerConnection for the peer; a       *)
(* closed one fires no events, and what a timer or a suspended call holds  *)
(* of it reads as closed.  The browser changes the ICE state and calls the *)
(* handlers of that change in the same task, so nothing else runs between  *)
(* the change and its handlers.  Timers carry no time: a pending timer     *)
(* fires at any moment.  "connected" stands for connected and completed,   *)
(* which the code tests together.                                          *)
(***************************************************************************)
\* new RTCPeerConnection(...): restarted holds when an ICE-restart offer
\* was sent since the ICE state last left "failed"
NewIcePc == [ice |-> "new", restarted |-> FALSE]

\* setTimeout's return value: an id no pending timer has
FreshTimer(used) == CHOOSE i \in 1..(Cardinality(used) + 1) : i \notin used

\* the moves of pc.iceConnectionState; it leaves "failed" only by a restart
IceStateMoves(from, to, restarted) ==
    \/ from = "new" /\ to = "checking"
    \/ from = "checking" /\ to \in {"connected", "failed"}
    \/ from = "connected" /\ to \in {"disconnected", "failed"}
    \/ from = "disconnected" /\ to \in {"connected", "failed"}
    \/ from = "failed" /\ to = "checking" /\ restarted

\* a counter that is only compared with a limit, kept within limit + 1
CountUpTo(n, limit) == IF n > limit THEN n ELSE n + 1

pcGroup == <<peerConn, pcsCreated, stateEvents, p2pPossible, directOpen>>
restartGroup == <<restartCount, restartsPending, offersSinceReset, offersSinceConnect>>
discGroup == <<disconnectedTimers, disconnectedPending>>
retryGroup == <<p2pRetryTimers, retryPending, p2pRetryAttempts>>
relayGroup == <<inRelayMode, commitAttempts, budgetExhausted>>

InitIceIdle ==
    /\ peerPresent = TRUE
    /\ peerConn = Nil
    /\ pcsCreated = 0
    /\ stateEvents = <<>>
    /\ p2pPossible = FALSE
    /\ directOpen = FALSE
    /\ restartCount = 0
    /\ restartsPending = {}
    /\ offersSinceReset = 0
    /\ offersSinceConnect = 0
    /\ disconnectedTimers = 0
    /\ disconnectedPending = {}
    /\ p2pRetryTimers = 0
    /\ retryPending = {}
    /\ p2pRetryAttempts = 0
    /\ inRelayMode = FALSE
    /\ commitAttempts = 0
    /\ budgetExhausted = FALSE
    /\ reconnects = {}
    /\ relayEntries = 0
    /\ failedCommit = FALSE

\* a handler that leaves the timer it set earlier pending
keepDisconnectedTimer(pending, timer) == pending

\* _handleIceConnectionStateChange and closeConnection: clearTimeout of
\* disconnectedTimers.get(peerId)
clearDisconnectedTimer(pending, timer) == {t \in pending : t.id # timer}

\* the test of _handleIceConnectionStateChange on "failed", whatever the
\* candidates are
shouldRestartAnyQuality(possible, count) == count < MAX_ICE_RESTARTS

\* the test of _handleIceConnectionStateChange on "failed":
\* quality?.p2pPossible && restartCount < MAX_ICE_RESTARTS
shouldRestart(possible, count) == possible /\ count < MAX_ICE_RESTARTS

\* WebRTCManager._stopBackgroundP2PRetry, with the timers pending
StopBackgroundP2PRetry(pending) ==
    /\ retryPending' = pending \ {p2pRetryTimers}
    /\ p2pRetryTimers' = 0
    /\ p2pRetryAttempts' = 0

\* WebRTCManager._startBackgroundP2PRetry
StartBackgroundP2PRetry ==
    LET kept == retryPending \ {p2pRetryTimers}
        id == FreshTimer(kept)
    IN  /\ retryPending' = kept \cup {id}
        /\ p2pRetryTimers' = id
        /\ p2pRetryAttempts' = 0

\* WebRTCManager._switchToRelay
SwitchPeerToRelay ==
    IF inRelayMode
    THEN UNCHANGED <<relayGroup, retryGroup>>
    ELSE /\ inRelayMode' = TRUE
         /\ commitAttempts' = 0
         /\ budgetExhausted' = FALSE
         /\ StartBackgroundP2PRetry

\* WebRTCManager.closeConnection
CloseIceConnection ==
    /\ disconnectedPending' = clearDisconnectedTimer(disconnectedPending, disconnectedTimers)
    /\ disconnectedTimers' = 0
    /\ StopBackgroundP2PRetry(retryPending)
    /\ peerConn' = Nil
    /\ stateEvents' = <<>>
    /\ directOpen' = FALSE
    /\ p2pPossible' = FALSE
    /\ restartCount' = 0
    /\ offersSinceReset' = 0
    /\ inRelayMode' = FALSE
    /\ UNCHANGED <<pcsCreated, restartsPending, offersSinceConnect, commitAttempts,
                   budgetExhausted>>

\* WebRTCManager.createConnection for a caller other than the background
\* retry (ensureConnection, handleOffer, prewarmConnection)
IceCreateConnection ==
    /\ peerPresent /\ peerConn = Nil /\ pcsCreated < MaxPcs
    /\ peerConn' = NewIcePc
    /\ pcsCreated' = pcsCreated + 1
    /\ UNCHANGED <<stateEvents, p2pPossible, directOpen, restartGroup, discGroup,
                   retryGroup, relayGroup, peerPresent, reconnects, relayEntries,
                   failedCommit>>
    /\ UNCHANGED notIce

\* pc.onicecandidate with a host, srflx or prflx candidate:
\* _updateConnectionQuality
GatherDirectCandidate ==
    /\ peerConn # Nil /\ stateEvents = <<>> /\ ~p2pPossible
    /\ p2pPossible' = TRUE
    /\ UNCHANGED <<peerConn, pcsCreated, stateEvents, directOpen, restartGroup,
                   discGroup, retryGroup, relayGroup, peerPresent, reconnects,
                   relayEntries, failedCommit>>
    /\ UNCHANGED notIce

\* The browser moves pc.iceConnectionState and queues the handlers.  With
\* "failed" pc.connectionState becomes "failed" too, and connFirst tells
\* which of the two handlers runs first.
IceStateChanges(state, connFirst) ==
    /\ peerConn # Nil /\ stateEvents = <<>>
    /\ IceStateMoves(peerConn.ice, state, peerConn.restarted)
    /\ connFirst => state = "failed"
    /\ peerConn' = [ice |-> state,
                    restarted |-> IF state = "checking" THEN FALSE
                                  ELSE peerConn.restarted]
    /\ stateEvents' = IF state # "failed" THEN <<"ice">>
                      ELSE IF connFirst THEN <<"conn", "ice">>
                      ELSE <<"ice", "conn">>
    /\ failedCommit' =
          IF state = "failed" /\ (restartCount >= MAX_ICE_RESTARTS \/ ~p2pPossible)
          THEN TRUE ELSE failedCommit
    /\ UNCHANGED <<pcsCreated, p2pPossible, directOpen, restartGroup, discGroup,
                   retryGroup, relayGroup, peerPresent, reconnects, relayEntries>>
    /\ UNCHANGED notIce

\* WebRTCManager._handleIceConnectionStateChange, with _attemptIceRestart up
\* to its await of the restart delay
HandleIceState ==
    /\ stateEvents # <<>> /\ Head(stateEvents) = "ice"
    /\ stateEvents' = Tail(stateEvents)
    /\ LET cleared == clearDisconnectedTimer(disconnectedPending, disconnectedTimers)
           state == peerConn.ice
       IN  IF state = "disconnected"
           THEN LET id == FreshTimer({t.id : t \in cleared})
                IN  /\ disconnectedPending' = cleared \cup {[id |-> id, pc |-> pcsCreated]}
                    /\ disconnectedTimers' = id
                    /\ UNCHANGED <<restartGroup, retryGroup, relayGroup, failedCommit>>
           ELSE /\ disconnectedPending' = cleared
                /\ disconnectedTimers' = 0
                /\ IF state = "failed"
                   THEN IF shouldRestart(p2pPossible, restartCount)
                        THEN /\ IF restartCount >= MAX_ICE_RESTARTS
                                THEN UNCHANGED <<restartCount, restartsPending>>
                                ELSE /\ restartCount' = restartCount + 1
                                     /\ restartsPending' = restartsPending \cup {pcsCreated}
                             /\ UNCHANGED <<offersSinceReset, offersSinceConnect,
                                            retryGroup, relayGroup, failedCommit>>
                        ELSE /\ SwitchPeerToRelay
                             /\ UNCHANGED <<restartGroup, failedCommit>>
                   ELSE IF state = "connected"
                   THEN /\ restartCount' = 0
                        /\ offersSinceReset' = 0
                        /\ offersSinceConnect' = 0
                        /\ inRelayMode' = FALSE
                        /\ failedCommit' = FALSE
                        /\ UNCHANGED <<restartsPending, retryGroup, commitAttempts,
                                       budgetExhausted>>
                   ELSE UNCHANGED <<restartGroup, retryGroup, relayGroup, failedCommit>>
    /\ UNCHANGED <<peerConn, pcsCreated, p2pPossible, directOpen, peerPresent,
                   reconnects, relayEntries>>
    /\ UNCHANGED notIce

\* WebRTCManager._handleConnectionStateChange with pc.connectionState
\* "failed"
HandleConnectionState ==
    /\ stateEvents # <<>> /\ Head(stateEvents) = "conn"
    /\ IF restartCount >= MAX_ICE_RESTARTS
       THEN CloseIceConnection
       ELSE /\ stateEvents' = Tail(stateEvents)
            /\ UNCHANGED <<peerConn, pcsCreated, p2pPossible, directOpen, restartGroup,
                           discGroup, retryGroup, relayGroup>>
    /\ UNCHANGED <<peerPresent, reconnects, relayEntries, failedCommit>>
    /\ UNCHANGED notIce

\* the timer _handleIceConnectionStateChange set on "disconnected" fires
DisconnectedTimerFires(t) ==
    /\ t \in disconnectedPending /\ stateEvents = <<>>
    /\ disconnectedPending' = disconnectedPending \ {t}
    /\ IF peerConn # Nil /\ pcsCreated = t.pc /\ peerConn.ice = "disconnected"
       THEN SwitchPeerToRelay
       ELSE UNCHANGED <<relayGroup, retryGroup>>
    /\ UNCHANGED <<pcGroup, restartGroup, disconnectedTimers, peerPresent, reconnects,
                   relayEntries, failedCommit>>
    /\ UNCHANGED notIce

\* WebRTCManager._attemptIceRestart from the end of its delay: createOffer
\* throws on a closed connection, and the offer is not sent
IceRestartOffer(g) ==
    /\ g \in restartsPending /\ stateEvents = <<>>
    /\ restartsPending' = restartsPending \ {g}
    /\ IF peerConn # Nil /\ pcsCreated = g
       THEN /\ peerConn' = [peerConn EXCEPT !.restarted = TRUE]
            /\ offersSinceReset' = CountUpTo(offersSinceReset, MAX_ICE_RESTARTS)
            /\ offersSinceConnect' = CountUpTo(offersSinceConnect, MAX_ICE_RESTARTS)
       ELSE UNCHANGED <<peerConn, offersSinceReset, offersSinceConnect>>
    /\ UNCHANGED <<pcsCreated, stateEvents, p2pPossible, directOpen, restartCount,
                   discGroup, retryGroup, relayGroup, peerPresent, reconnects,
                   relayEntries, failedCommit>>
    /\ UNCHANGED notIce

\* channel.onopen in setupDataChannel
IceDataChannelOpen ==
    /\ peerConn # Nil /\ stateEvents = <<>>
    /\ peerConn.ice = "connected" /\ ~directOpen
    /\ directOpen' = TRUE
    /\ inRelayMode' = FALSE
    /\ StopBackgroundP2PRetry(retryPending)
    /\ failedCommit' = FALSE
    /\ UNCHANGED <<peerConn, pcsCreated, stateEvents, p2pPossible, restartGroup,
                   discGroup, commitAttempts, budgetExhausted, peerPresent, reconnects,
                   relayEntries>>
    /\ UNCHANGED notIce

\* the peer-left message: CloudDrop.removePeer
PeerLeaves ==
    /\ peerPresent /\ stateEvents = <<>>
    /\ peerPresent' = FALSE
    /\ CloseIceConnection
    /\ failedCommit' = FALSE
    /\ UNCHANGED <<reconnects, relayEntries>>
    /\ UNCHANGED notIce

\* _switchToRelay called by a timer of a connection race or by sendFile and
\* sendText finding no open channel
RaceSwitchesToRelay ==
    /\ peerPresent /\ stateEvents = <<>>
    /\ ~inRelayMode /\ relayEntries < MaxRelayEntries
    /\ relayEntries' = relayEntries + 1
    /\ SwitchPeerToRelay
    /\ UNCHANGED <<pcGroup, restartGroup, discGroup, peerPresent, reconnects,
                   failedCommit>>
    /\ UNCHANGED notIce

\* WebRTCManager.handleRelayData, its entry into relay mode
RelayDataArrives ==
    /\ peerPresent /\ stateEvents = <<>>
    /\ ~inRelayMode /\ relayEntries < MaxRelayEntries
    /\ relayEntries' = relayEntries + 1
    /\ inRelayMode' = TRUE
    /\ commitAttempts' = 0
    /\ budgetExhausted' = FALSE
    /\ UNCHANGED <<pcGroup, restartGroup, discGroup, retryGroup, peerPresent,
                   reconnects, failedCommit>>
    /\ UNCHANGED notIce

\* A background retry timer fires: _attemptSilentP2PReconnect up to the
\* wait of _attemptP2PConnectionSilent for the channel, with the connection
\* it creates
RetryTimerFires(id) ==
    /\ id \in retryPending /\ stateEvents = <<>>
    /\ IF ~inRelayMode
       THEN /\ StopBackgroundP2PRetry(retryPending \ {id})
            /\ UNCHANGED <<pcGroup, restartGroup, relayGroup, reconnects>>
       ELSE IF p2pRetryAttempts + 1 > P2P_RETRY_MAX_ATTEMPTS
       THEN /\ StopBackgroundP2PRetry(retryPending \ {id})
            /\ budgetExhausted' = TRUE
            /\ UNCHANGED <<pcGroup, restartGroup, inRelayMode, commitAttempts,
                           reconnects>>
       ELSE /\ pcsCreated < MaxPcs
            /\ retryPending' = retryPending \ {id}
            /\ p2pRetryAttempts' = p2pRetryAttempts + 1
            /\ commitAttempts' = CountUpTo(commitAttempts, P2P_RETRY_MAX_ATTEMPTS)
            /\ peerConn' = NewIcePc
            /\ pcsCreated' = pcsCreated + 1
            /\ directOpen' = FALSE
            /\ p2pPossible' = FALSE
            /\ restartCount' = 0
            /\ offersSinceReset' = 0
            /\ reconnects' = reconnects \cup {pcsCreated + 1}
            /\ UNCHANGED <<stateEvents, restartsPending, offersSinceConnect,
                           p2pRetryTimers, inRelayMode, budgetExhausted>>
    /\ UNCHANGED <<discGroup, peerPresent, relayEntries, failedCommit>>
    /\ UNCHANGED notIce

\* _attemptSilentP2PReconnect after _attemptP2PConnectionSilent returned:
\* waitForChannel found dataChannels.get(peerId) open
ReconnectSucceeds(g) ==
    /\ g \in reconnects /\ stateEvents = <<>> /\ directOpen
    /\ reconnects' = reconnects \ {g}
    /\ inRelayMode' = FALSE
    /\ StopBackgroundP2PRetry(retryPending)
    /\ failedCommit' = FALSE
    /\ UNCHANGED <<pcGroup, restartGroup, discGroup, commitAttempts, budgetExhausted,
                   peerPresent, relayEntries>>
    /\ UNCHANGED notIce

\* _attemptSilentP2PReconnect's catch: waitForChannel rejected (timeout,
\* or the connection it holds failed or was closed)
ReconnectFails(g) ==
    /\ g \in reconnects /\ stateEvents = <<>> /\ ~directOpen
    /\ reconnects' = reconnects \ {g}
    /\ IF inRelayMode
       THEN LET id == FreshTimer(retryPending)
            IN  /\ retryPending' = retryPending \cup {id}
                /\ p2pRetryTimers' = id
                /\ UNCHANGED p2pRetryAttempts
       ELSE UNCHANGED retryGroup
    /\ UNCHANGED <<pcGroup, restartGroup, discGroup, relayGroup, peerPresent,
                   relayEntries, failedCommit>>
    /\ UNCHANGED notIce

NextIce ==
    \/ IceCreateConnection
    \/ GatherDirectCandidate
    \/ \E state \in {"checking", "connected", "disconnected", "failed"},
          connFirst \in BOOLEAN : IceStateChanges(state, connFirst)
    \/ HandleIceState
    \/ HandleConnectionState
    \/ \E t \in disconnectedPending : DisconnectedTimerFires(t)
    \/ \E g \in restartsPending : IceRestartOffer(g)
    \/ IceDataChannelOpen
    \/ PeerLeaves
    \/ RaceSwitchesToRelay
    \/ RelayDataArrives
    \/ \E id \in retryPending : RetryTimerFires(id)
    \/ \E g \in reconnects : ReconnectSucceeds(g)
    \/ \E g \in reconnects : ReconnectFails(g)

(***************************************************************************)
(* The key exchange over signaling between two devices (webrtc.js          *)
(* _exchangeKeysViaSignaling, handleKeyExchange, waitForEncryptionKey),    *)
(* which a relay sender starts when cryptoManager holds no shared secret   *)
(* for the peer.  handleKeyExchange awaits the import of the key and then  *)
(* the export of its own one; the handlers of one device complete in the   *)
(* order they began.  closeConnection discards the shared secret and       *)
(* leaves _keyExchangeSent alone; here it runs between exchanges.  kxCall  *)
(* keeps how the last call of _exchangeKeysViaSignaling ended until a      *)
(* secret is discarded.                                                    *)
(***************************************************************************)
\* the public key cryptoManager.exportPublicKey gives on device p
PublicKeyOf(p) == IF p = "a" THEN "key-a" ELSE "key-b"

\* the key-exchange frame of device p
KeyExchangeFrame(p) == [type |-> "key-exchange", publicKey |-> PublicKeyOf(p)]

InitKeysIdle ==
    /\ kxSecret = [p \in Devices |-> None]
    /\ kxSent = [p \in Devices |-> FALSE]
    /\ kxNet = [p \in Devices |-> <<>>]
    /\ kxImporting = [p \in Devices |-> <<>>]
    /\ kxReplying = [p \in Devices |-> 0]
    /\ kxCall = [p \in Devices |-> "idle"]
    /\ kxStarts = 0


\* _sendFileDataViaRelay or _sendTextViaRelay finds no shared secret:
\* _exchangeKeysViaSignaling up to the await of exportPublicKey
StartKeyExchange(p) ==
    /\ kxSecret[p] = None
    /\ kxCall[p] \notin {"exporting", "waiting"}
    /\ kxStarts < MaxExchanges
    /\ kxStarts' = kxStarts + 1
    /\ kxCall' = [kxCall EXCEPT ![p] = "exporting"]
    /\ UNCHANGED <<kxSecret, kxSent, kxNet, kxImporting, kxReplying>>
    /\ UNCHANGED notKeys

\* _exchangeKeysViaSignaling from the end of exportPublicKey: the frame is
\* sent, waitForEncryptionKey makes its first check
SendKeyExchange(p) ==
    /\ kxCall[p] = "exporting"
    /\ kxNet' = [kxNet EXCEPT ![Other(p)] = Append(@, KeyExchangeFrame(p))]
    /\ kxCall' = [kxCall EXCEPT ![p] = IF kxSecret[p] # None THEN "done" ELSE "waiting"]
    /\ UNCHANGED <<kxSecret, kxSent, kxImporting, kxReplying, kxStarts>>
    /\ UNCHANGED notKeys

\* no key-exchange frame is on its way or being handled
KeyFramesSettled ==
    \A q \in Devices : kxNet[q] = <<>> /\ kxImporting[q] = <<>> /\ kxReplying[q] = 0

\* no key-exchange frame is on its way, no handler and no call is running
KeysQuiet ==
    /\ KeyFramesSettled
    /\ \A p \in Devices : kxCall[p] \notin {"exporting", "waiting"}

\* a later check of waitForEncryptionKey that ends the wait: the secret is
\* there, or the five seconds are over; frames and handlers take less
WaitForEncryptionKey(p) ==
    /\ kxCall[p] = "waiting"
    /\ kxSecret[p] = None => KeyFramesSettled
    /\ kxCall' = [kxCall EXCEPT ![p] = IF kxSecret[p] # None THEN "done" ELSE "failed"]
    /\ UNCHANGED <<kxSecret, kxSent, kxNet, kxImporting, kxReplying, kxStarts>>
    /\ UNCHANGED notKeys

\* handleKeyExchange up to the await of importPeerPublicKey
KeyExchangeArrives(p) ==
    /\ kxNet[p] # <<>>
    /\ kxNet' = [kxNet EXCEPT ![p] = Tail(@)]
    /\ kxImporting' = [kxImporting EXCEPT ![p] = Append(@, Head(kxNet[p]).publicKey)]
    /\ UNCHANGED <<kxSecret, kxSent, kxReplying, kxCall, kxStarts>>
    /\ UNCHANGED notKeys

\* handleKeyExchange from the end of importPeerPublicKey to the await of
\* exportPublicKey, or to its end when _keyExchangeSent has the peer
KeyImported(p) ==
    /\ kxImporting[p] # <<>>
    /\ kxImporting' = [kxImporting EXCEPT ![p] = Tail(@)]
    /\ kxSecret' = [kxSecret EXCEPT ![p] = Head(kxImporting[p])]
    /\ IF ~kxSent[p]
       THEN /\ kxSent' = [kxSent EXCEPT ![p] = TRUE]
            /\ kxReplying' = [kxReplying EXCEPT ![p] = @ + 1]
       ELSE UNCHANGED <<kxSent, kxReplying>>
    /\ UNCHANGED <<kxNet, kxCall, kxStarts>>
    /\ UNCHANGED notKeys

\* handleKeyExchange from the end of exportPublicKey: the own key goes back
ReplyKeyExchange(p) ==
    /\ kxReplying[p] > 0
    /\ kxReplying' = [kxReplying EXCEPT ![p] = @ - 1]
    /\ kxNet' = [kxNet EXCEPT ![Other(p)] = Append(@, KeyExchangeFrame(p))]
    /\ UNCHANGED <<kxSecret, kxSent, kxImporting, kxCall, kxStarts>>
    /\ UNCHANGED notKeys

\* closeConnection on device p: cryptoManager.removePeer(peerId)
DiscardSecret(p) ==
    /\ KeysQuiet
    /\ kxSecret[p] # None
    /\ kxSecret' = [kxSecret EXCEPT ![p] = None]
    /\ kxCall' = [q \in Devices |-> "idle"]
    /\ UNCHANGED <<kxSent, kxNet, kxImporting, kxReplying, kxStarts>>
    /\ UNCHANGED notKeys

NextKeys ==
    \/ \E p \in Devices : StartKeyExchange(p)
    \/ \E p \in Devices : SendKeyExchange(p)
    \/ \E p \in Devices : WaitForEncryptionKey(p)
    \/ \E p \in Devices : KeyExchangeArrives(p)
    \/ \E p \in Devices : KeyImported(p)
    \/ \E p \in Devices : ReplyKeyExchange(p)
    \/ \E p \in Devices : DiscardSecret(p)

(***************************************************************************)
(* The file requests one device receives from the peers of its room        *)
(* (app.js handleFileRequest, acceptFileRequest, declineFileRequest;       *)
(* webrtc.js respondToFileRequest).  A peer sends its next file-request    *)
(* when the one before was answered; the fileId is the sender's, unique    *)
(* per request.                                                            *)
(***************************************************************************)
Senders == 1..NumSenders

\* the file-request frame number k of peer p, as the hub delivers it
FileRequestFrom(p, k) == [peerId |-> p, fileId |-> <<p, k>>]

\* WebRTCManager.respondToFileRequest: the file-response frame
FileResponseTo(request, accept) ==
    [to |-> request.peerId, fileId |-> request.fileId, accepted |-> accept]

\* the request got a file-response with its fileId, sent to its sender
Answered(request) ==
    \E r \in rqResponses : r.to = request.peerId /\ r.fileId = request.fileId

InitInboxIdle ==
    /\ rqReceived = {}
    /\ rqPending = Nil
    /\ rqIncoming = [p \in Senders |-> None]
    /\ rqResponses = {}

\* CloudDrop.acceptFileRequest
AcceptPending(request) ==
    /\ rqResponses' = rqResponses \cup {FileResponseTo(request, TRUE)}
    /\ rqIncoming' = [rqIncoming EXCEPT ![request.peerId] = request.fileId]
    /\ rqPending' = Nil

\* CloudDrop.handleFileRequest for a file-request frame of peer p: the
\* request is stored; a trusted device is accepted at once, for any other
\* the confirmation dialog is shown
FileRequestArrives(p) ==
    /\ \A r \in rqReceived : r.peerId = p => Answered(r)
    /\ \E k \in 1..MaxRequests, trusted \in BOOLEAN :
         /\ k = Cardinality({r \in rqReceived : r.peerId = p}) + 1
         /\ rqReceived' = rqReceived \cup {FileRequestFrom(p, k)}
         /\ IF trusted
            THEN AcceptPending(FileRequestFrom(p, k))
            ELSE /\ rqPending' = FileRequestFrom(p, k)
                 /\ UNCHANGED <<rqIncoming, rqResponses>>
    /\ UNCHANGED notInbox

\* CloudDrop.acceptFileRequest from the confirmation dialog
UserAccepts ==
    /\ rqPending # Nil
    /\ AcceptPending(rqPending)
    /\ UNCHANGED rqReceived
    /\ UNCHANGED notInbox

\* CloudDrop.declineFileRequest from the confirmation dialog
UserDeclines ==
    /\ rqPending # Nil
    /\ rqResponses' = rqResponses \cup {FileResponseTo(rqPending, FALSE)}
    /\ rqPending' = Nil
    /\ UNCHANGED <<rqReceived, rqIncoming>>
    /\ UNCHANGED notInbox

NextInbox ==
    \/ \E p \in Senders : FileRequestArrives(p)
    \/ UserAccepts
    \/ UserDeclines

(***************************************************************************)
(* The members of one Room durable object over time (Room.handleWebSocket, *)
(* handleSetPassword, handleJoin, handleLeave), with what each session     *)
(* presented when it connected and what its client has been told about    *)
(* the other peers.  A client may send any frame on its socket, a second   *)
(* join included.                                                          *)
(***************************************************************************)
\* this.state.getWebSockets(): the accepted sockets not yet closed
Connected2Room == {s \in Sess : mbState[s] \in {"open", "closing"}}

\* the sessions that are open and have joined
Members == {s \in Sess : mbState[s] = "open" /\ mbAttach[s] # None}

\* Room.broadcast: the sessions a frame is delivered to
BroadcastTo(attached, excludePeerId) ==
    {t \in Connected2Room :
       attached[t] # None /\ attached[t] # excludePeerId /\ mbState[t] = "open"}

InitMembersIdle ==
    /\ mbHash = None
    /\ mbSetBegun = 0
    /\ mbSetAwaiting = 0
    /\ mbState = [s \in Sess |-> "unused"]
    /\ mbAttach = [s \in Sess |-> None]
    /\ mbPresented = [s \in Sess |-> None]
    /\ mbKnown = [s \in Sess |-> {}]
    /\ mbJoins = 0

\* Room.handleSetPassword up to its await request.json()
MemberSetPasswordBegin ==
    /\ mbSetBegun < NumSetReq
    /\ mbSetBegun' = mbSetBegun + 1
    /\ mbSetAwaiting' = IF mbHash # None THEN mbSetAwaiting ELSE mbSetAwaiting + 1
    /\ UNCHANGED <<mbHash, mbState, mbAttach, mbPresented, mbKnown, mbJoins>>
    /\ UNCHANGED notMembers

\* Room.handleSetPassword from the resumption after await request.json()
MemberSetPasswordFinish ==
    /\ mbSetAwaiting > 0
    /\ mbSetAwaiting' = mbSetAwaiting - 1
    /\ \E body \in Hashes \cup {None} :
         mbHash' = IF body = None THEN mbHash ELSE body
    /\ UNCHANGED <<mbSetBegun, mbState, mbAttach, mbPresented, mbKnown, mbJoins>>
    /\ UNCHANGED notMembers

\* Room.handleWebSocket for an upgrade request with the header
\* X-Room-Password-Hash
MemberUpgrade(s) ==
    /\ mbState[s] = "unused"
    /\ \E providedPasswordHash \in Hashes \cup {None} :
         /\ mbPresented' = [mbPresented EXCEPT ![s] = providedPasswordHash]
         /\ mbState' = [mbState EXCEPT ![s] =
                          IF mbHash # None /\ providedPasswordHash # mbHash
                          THEN "closing" ELSE "open"]
    /\ UNCHANGED <<mbHash, mbSetBegun, mbSetAwaiting, mbAttach, mbKnown, mbJoins>>
    /\ UNCHANGED notMembers

\* Room.handleJoin for a join frame on session s: a new id replaces the
\* attachment, joined goes to s, peer-joined to the others.  On a socket the
\* hub has closed ws.send throws (the handler stops) or drops the frame.
MemberJoin(s) ==
    /\ s \in Connected2Room
    /\ mbJoins < MaxJoins
    /\ mbJoins' = mbJoins + 1
    /\ \E sendThrows \in BOOLEAN :
         LET peerId == randomUUID(mbJoins + 1)
             attached == [mbAttach EXCEPT ![s] = peerId]
             otherPeers == {attached[t] : t \in {u \in Members : attached[u] # peerId}}
             stops == mbState[s] # "open" /\ sendThrows
             told == IF stops THEN {} ELSE BroadcastTo(attached, peerId)
         IN  /\ mbAttach' = attached
             /\ mbKnown' = [t \in Sess |->
                              IF t = s
                              THEN IF mbState[s] = "open" THEN otherPeers ELSE mbKnown[s]
                              ELSE IF t \in told THEN mbKnown[t] \cup {peerId}
                              ELSE mbKnown[t]]
    /\ UNCHANGED <<mbHash, mbSetBegun, mbSetAwaiting, mbState, mbPresented>>
    /\ UNCHANGED notMembers

\* Room.webSocketClose and webSocketError with handleLeave: peer-left for
\* the id in the attachment goes to the others
MemberLeave(s) ==
    /\ s \in Connected2Room
    /\ mbState' = [mbState EXCEPT ![s] = "closed"]
    /\ mbAttach' = [mbAttach EXCEPT ![s] = None]
    /\ mbKnown' = [t \in Sess |->
                     IF t = s THEN {}
                     ELSE IF mbAttach[s] # None /\ t \in BroadcastTo(mbAttach, None)
                     THEN mbKnown[t] \ {mbAttach[s]}
                     ELSE mbKnown[t]]
    /\ UNCHANGED <<mbHash, mbSetBegun, mbSetAwaiting, mbPresented, mbJoins>>
    /\ UNCHANGED notMembers

NextMembers ==
    \/ MemberSetPasswordBegin
    \/ MemberSetPasswordFinish
    \/ \E s \in Sess : MemberUpgrade(s)
    \/ \E s \in Sess : MemberJoin(s)
    \/ \E s \in Sess : MemberLeave(s)

(***************************************************************************)
(* Specifications: one per component; the other components stay idle.      *)
(***************************************************************************)
InitCrypto ==
    /\ InitHubIdle
    /\ InitLinkIdle
    /\ InitTransferIdle
    /\ InitNegIdle
    /\ InitRaceIdle
    /\ InitSendIdle
    /\ InitRecvIdle
    /\ InitLifeIdle
    /\ InitPrewarmIdle
    /\ InitRoomIdle
    /\ InitIceIdle
    /\ InitKeysIdle
    /\ InitInboxIdle
    /\ InitMembersIdle
    /\ encPlain \in Plaintexts
    /\ sndPeerKey \in PeerKeys \cup {None}
    /\ rcvPeerKey \in PeerKeys \cup {None}
    /\ sndRoomKey \in RoomKeys \cup {None}
    /\ rcvRoomKey \in RoomKeys \cup {None}
    /\ encWire = <<>>
    /\ encOut = Threw("")
    /\ encPc = "plain"

SpecCrypto == InitCrypto /\ [][NextCrypto]_vars

InitHub ==
    InitCryptoIdle /\ InitHubIdle /\ InitLinkIdle /\ InitTransferIdle /\ InitNegIdle
    /\ InitRaceIdle
    /\ InitSendIdle
    /\ InitRecvIdle
    /\ InitLifeIdle
    /\ InitPrewarmIdle
    /\ InitRoomIdle
    /\ InitIceIdle
    /\ InitKeysIdle
    /\ InitInboxIdle
    /\ InitMembersIdle

SpecHub == InitHub /\ [][NextHub]_vars

\* the direct channel to the remote peer is open and the key is shared
InitTransfer ==
    /\ InitCryptoIdle
    /\ InitHubIdle
    /\ InitNegIdle
    /\ InitRaceIdle
    /\ InitSendIdle
    /\ InitRecvIdle
    /\ InitLifeIdle
    /\ InitPrewarmIdle
    /\ InitRoomIdle
    /\ InitIceIdle
    /\ InitKeysIdle
    /\ InitInboxIdle
    /\ InitMembersIdle
    /\ relayMode = FALSE
    /\ dataChannelOpen = TRUE
    /\ hasSharedSecret = TRUE
    /\ keyExchangeSent = FALSE
    /\ InitTransferIdle

SpecTransfer == InitTransfer /\ [][NextTransfer]_vars

\* the link to the remote peer has settled one way or another
InitText ==
    /\ InitCryptoIdle
    /\ InitHubIdle
    /\ InitNegIdle
    /\ InitRaceIdle
    /\ InitSendIdle
    /\ InitRecvIdle
    /\ InitLifeIdle
    /\ InitPrewarmIdle
    /\ InitRoomIdle
    /\ InitIceIdle
    /\ InitKeysIdle
    /\ InitInboxIdle
    /\ InitMembersIdle
    /\ relayMode \in BOOLEAN
    /\ dataChannelOpen \in BOOLEAN
    /\ hasSharedSecret \in BOOLEAN
    /\ keyExchangeSent = FALSE
    /\ InitTransferIdle

SpecText == InitText /\ [][NextText]_vars

InitNeg ==
    InitCryptoIdle /\ InitHubIdle /\ InitLinkIdle /\ InitTransferIdle /\ InitNegIdle
    /\ InitRaceIdle
    /\ InitSendIdle
    /\ InitRecvIdle
    /\ InitLifeIdle
    /\ InitPrewarmIdle
    /\ InitRoomIdle
    /\ InitIceIdle
    /\ InitKeysIdle
    /\ InitInboxIdle
    /\ InitMembersIdle

SpecNeg == InitNeg /\ [][NextNeg]_vars

InitRace ==
    InitCryptoIdle /\ InitHubIdle /\ InitLinkIdle /\ InitTransferIdle /\ InitNegIdle
    /\ InitRaceIdle
    /\ InitSendIdle
    /\ InitRecvIdle
    /\ InitLifeIdle
    /\ InitPrewarmIdle
    /\ InitRoomIdle
    /\ InitIceIdle
    /\ InitKeysIdle
    /\ InitInboxIdle
    /\ InitMembersIdle

SpecRace == InitRace /\ [][NextRace]_vars

InitSend ==
    InitCryptoIdle /\ InitHubIdle /\ InitLinkIdle /\ InitTransferIdle /\ InitNegIdle
    /\ InitRaceIdle
    /\ InitSendIdle
    /\ InitRecvIdle
    /\ InitLifeIdle
    /\ InitPrewarmIdle
    /\ InitRoomIdle
    /\ InitIceIdle
    /\ InitKeysIdle
    /\ InitInboxIdle
    /\ InitMembersIdle

SpecSend == InitSend /\ [][NextSend]_vars

\* the file request was accepted; the sender is about to stream the file
InitRecv ==
    /\ InitCryptoIdle
    /\ InitHubIdle
    /\ InitLinkIdle
    /\ InitTransferIdle
    /\ InitNegIdle
    /\ InitRaceIdle
    /\ InitSendIdle
    /\ InitLifeIdle
    /\ InitPrewarmIdle
    /\ InitRoomIdle
    /\ InitIceIdle
    /\ InitKeysIdle
    /\ InitInboxIdle
    /\ InitMembersIdle
    /\ rcvRelay \in BOOLEAN
    /\ rcvTotal \in StreamChunks
    /\ rcvPhase = "start"
    /\ rcvSent = 0
    /\ rcvCopies = [i \in 0..(MaxStreamChunks - 1) |-> 0]
    /\ rcvTransfer = AcceptedTransfer(rcvTotal)
    /\ decryptJobs = <<>>
    /\ graceWait = FALSE
    /\ delivered = Nil
    /\ decryptFailed = FALSE
    /\ placedTwice = FALSE
    /\ rcvAcks = {}

SpecRecv == InitRecv /\ [][NextRecv]_vars

\* the client has called connectWebSocket once
InitLife ==
    InitCryptoIdle /\ InitHubIdle /\ InitLinkIdle /\ InitTransferIdle /\ InitNegIdle
    /\ InitRaceIdle
    /\ InitSendIdle
    /\ InitRecvIdle
    /\ InitLifeIdle
    /\ InitPrewarmIdle
    /\ InitRoomIdle
    /\ InitIceIdle
    /\ InitKeysIdle
    /\ InitInboxIdle
    /\ InitMembersIdle

SpecLife == InitLife /\ [][NextLife]_vars

\* a peer was just listed: no connection, no key, no relay mode yet
InitPrewarm ==
    InitCryptoIdle /\ InitHubIdle /\ InitLinkIdle /\ InitTransferIdle /\ InitNegIdle
    /\ InitRaceIdle
    /\ InitSendIdle
    /\ InitRecvIdle
    /\ InitLifeIdle
    /\ InitPrewarmIdle
    /\ InitRoomIdle
    /\ InitIceIdle
    /\ InitKeysIdle
    /\ InitInboxIdle
    /\ InitMembersIdle

SpecPrewarm == InitPrewarm /\ [][NextPrewarm]_vars

InitRoom ==
    InitCryptoIdle /\ InitHubIdle /\ InitLinkIdle /\ InitTransferIdle /\ InitNegIdle
    /\ InitRaceIdle
    /\ InitSendIdle
    /\ InitRecvIdle
    /\ InitLifeIdle
    /\ InitPrewarmIdle
    /\ InitRoomIdle
    /\ InitIceIdle
    /\ InitKeysIdle
    /\ InitInboxIdle
    /\ InitMembersIdle

SpecRoom == InitRoom /\ [][NextRoom]_vars

InitIce ==
    InitCryptoIdle /\ InitHubIdle /\ InitLinkIdle /\ InitTransferIdle /\ InitNegIdle
    /\ InitRaceIdle
    /\ InitSendIdle
    /\ InitRecvIdle
    /\ InitLifeIdle
    /\ InitPrewarmIdle
    /\ InitRoomIdle
    /\ InitIceIdle
    /\ InitKeysIdle
    /\ InitInboxIdle
    /\ InitMembersIdle

SpecIce == InitIce /\ [][NextIce]_vars

InitKeys ==
    /\ InitCryptoIdle
    /\ InitHubIdle
    /\ InitLinkIdle
    /\ InitTransferIdle
    /\ InitNegIdle
    /\ InitRaceIdle
    /\ InitSendIdle
    /\ InitRecvIdle
    /\ InitLifeIdle
    /\ InitPrewarmIdle
    /\ InitRoomIdle
    /\ InitIceIdle
    /\ InitInboxIdle
    /\ InitMembersIdle
    /\ \E exchanged \in BOOLEAN :
         kxSecret = [p \in Devices |-> IF exchanged THEN PublicKeyOf(Other(p)) ELSE None]
    /\ kxSent = [p \in Devices |-> FALSE]
    /\ kxNet = [p \in Devices |-> <<>>]
    /\ kxImporting = [p \in Devices |-> <<>>]
    /\ kxReplying = [p \in Devices |-> 0]
    /\ kxCall = [p \in Devices |-> "idle"]
    /\ kxStarts = 0

SpecKeys == InitKeys /\ [][NextKeys]_vars

InitInbox ==
    /\ InitCryptoIdle
    /\ InitHubIdle
    /\ InitLinkIdle
    /\ InitTransferIdle
    /\ InitNegIdle
    /\ InitRaceIdle
    /\ InitSendIdle
    /\ InitRecvIdle
    /\ InitLifeIdle
    /\ InitPrewarmIdle
    /\ InitRoomIdle
    /\ InitIceIdle
    /\ InitKeysIdle
    /\ InitInboxIdle
    /\ InitMembersIdle

SpecInbox == InitInbox /\ [][NextInbox]_vars

InitMembers ==
    /\ InitCryptoIdle
    /\ InitHubIdle
    /\ InitLinkIdle
    /\ InitTransferIdle
    /\ InitNegIdle
    /\ InitRaceIdle
    /\ InitSendIdle
    /\ InitRecvIdle
    /\ InitLifeIdle
    /\ InitPrewarmIdle
    /\ InitRoomIdle
    /\ InitIceIdle
    /\ InitKeysIdle
    /\ InitInboxIdle
    /\ InitMembersIdle

SpecMembers == InitMembers /\ [][NextMembers]_vars

(***************************************************************************)
(* Claims about the members of a room.                                     *)
(***************************************************************************)
\* C38: in a room whose password hash is set, every session that is open
\* and has joined presented that hash when it connected.
C38_MembersPresentedHash ==
    mbHash # None => \A s \in Members : mbPresented[s] = mbHash

\* C39: every peer id a member's client was told of by joined or
\* peer-joined, and was not told of by peer-left, is the id of a session
\* that is still connected.
C39_AnnouncedIdsRetracted ==
    \A t \in Members : mbKnown[t] \subseteq {mbAttach[u] : u \in Connected2Room}

(***************************************************************************)
(* Claims about the incoming file requests.                                *)
(***************************************************************************)
\* C37: every file request the device received either still awaits the
\* user's decision or was answered by a file-response with its fileId, sent
\* to its sender; a request of another peer does not displace it.
C37_RequestKeptUntilAnswered ==
    \A r \in rqReceived : rqPending = r \/ Answered(r)

(***************************************************************************)
(* Claims about the key exchange over signaling.                           *)
(***************************************************************************)
\* C36: once a key exchange over signaling has ended and nothing of it is
\* on its way or being handled, each device holds the shared secret made
\* from the other's public key.
C36_ExchangeEndsWithSharedKey ==
    (KeysQuiet /\ \E p \in Devices : kxCall[p] \in {"done", "failed"}) =>
       \A q \in Devices : kxSecret[q] = PublicKeyOf(Other(q))

(***************************************************************************)
(* Claims about the ICE recovery.                                          *)
(***************************************************************************)
\* the connection a disconnected timer was set for is the live one
LivePc(t) == peerConn # Nil /\ t.pc = pcsCreated

C26_OffersBetweenConnects == offersSinceConnect <= MAX_ICE_RESTARTS

\* C26: the restart counter never exceeds MAX_ICE_RESTARTS, and no more
\* restart offers are sent than it counts since its last reset; it grows
\* only in the handler of ICE "failed", with p2pPossible and below
\* MAX_ICE_RESTARTS; the handler of ICE "connected" resets it.
C26_RestartCounter ==
    /\ [](restartCount <= MAX_ICE_RESTARTS /\ offersSinceReset <= restartCount)
    /\ [][restartCount' > restartCount =>
            (/\ HandleIceState /\ peerConn.ice = "failed"
             /\ p2pPossible /\ restartCount < MAX_ICE_RESTARTS
             /\ restartCount' = restartCount + 1)]_vars
    /\ [][(HandleIceState /\ peerConn.ice = "connected") =>
            restartCount' = 0]_vars

\* both restarts of one connection were made and their offers sent
C26_Witness ==
    /\ restartCount = MAX_ICE_RESTARTS
    /\ offersSinceReset = MAX_ICE_RESTARTS
    /\ peerConn # Nil /\ p2pPossible

\* C27: after ICE failed with the restarts exhausted or P2P impossible, and
\* both handlers of the failure have run, the peer is in relay mode until
\* a direct path comes up or the peer leaves.
C27_FailedStaysInRelay == (failedCommit /\ stateEvents = <<>>) => inRelayMode

\* C28: at most one background retry timer is pending, and at most
\* P2P_RETRY_MAX_ATTEMPTS reconnect attempts are made since relay mode was
\* entered.
C28_RetryLoopBounded ==
    /\ Cardinality(retryPending) <= 1
    /\ commitAttempts <= P2P_RETRY_MAX_ATTEMPTS

\* background recovery is scheduled: a retry timer is pending, a reconnect
\* attempt is in progress, or the retry loop ran out of attempts
RecoveryScheduled == retryPending # {} \/ reconnects # {} \/ budgetExhausted

\* C29: whenever the peer is in relay mode, background recovery is
\* scheduled, relay mode entered on received relay data included.
C29_RelayModeHasRecovery == inRelayMode => RecoveryScheduled

(***************************************************************************)
(* Claims about the room password.                                         *)
(***************************************************************************)
\* C22: the room key is only ever installed from a password of at least
\* PASSWORD_MIN_LENGTH characters.
C22_ShortPasswordInstallsNoKey ==
    clientRoomKey # Nil => clientRoomKey.password >= PASSWORD_MIN_LENGTH

(***************************************************************************)
(* Claims about prewarming.                                                *)
(***************************************************************************)
\* C20: a prewarm that failed has not put the peer into relay mode.
C20_FailedPrewarmNotRelay ==
    prewarm = "failed" => ~relayMode

(***************************************************************************)
(* Claims about the state kept for a peer.                                 *)
(***************************************************************************)
\* manager m holds none of the state the cleanup is to remove
NothingKept(m) ==
    /\ m.transfer = "none"
    /\ ~m.disconnectedTimer
    /\ ~m.p2pRetryTimer
    /\ ~m.iceRestartCounts

\* C14: once peer-left was handled, the client holds no key, transfer,
\* pending request, timer or restart counter of the peer, and nothing
\* brings one back (stated for a client that never reconnected).
C14_NothingKeptAfterPeerLeft ==
    (peerLeft /\ Len(webrtc) = 1) => (~peerSecret /\ NothingKept(webrtc[1]))

\* C15: once the client has rejoined after a reconnect, no manager from
\* before the disconnect holds a peer connection, a timer or a transfer in
\* flight.
C15_ReconnectClearsEarlier ==
    (ws = "open" /\ Len(webrtc) > 1) =>
       \A g \in 1..(Len(webrtc) - 1) :
          ~webrtc[g].connection /\ NothingKept(webrtc[g])

(***************************************************************************)
(* Claims about receiving a file.                                          *)
(***************************************************************************)
\* how often the bytes of chunk i occur in the output
Occurrences(output, i) == Cardinality({k \in 1..Len(output) : output[k] = Plain(i)})

\* C12: when the relay receiver has completed the transfer, every index
\* below totalChunks is exactly once in the output or is reported missing,
\* never both and never neither, and the output is in index order.
C12_OutputOrMissing ==
    (rcvRelay /\ delivered # Nil) =>
       /\ \A i \in 0..(rcvTotal - 1) :
             \/ Occurrences(delivered.output, i) = 1 /\ i \notin delivered.missing
             \/ Occurrences(delivered.output, i) = 0 /\ i \in delivered.missing
       /\ delivered.missing \subseteq 0..(rcvTotal - 1)
       /\ \A k \in 1..Len(delivered.output) :
             /\ delivered.output[k].chunk \in 0..(rcvTotal - 1)
             /\ \A l \in (k + 1)..Len(delivered.output) :
                   delivered.output[k].chunk < delivered.output[l].chunk

\* two copies of chunk 0 were decrypted side by side and both placed, chunk
\* 1 never came, and the transfer completed
C12_Witness ==
    /\ rcvRelay /\ delivered # Nil /\ placedTwice
    /\ rcvTotal = 2
    /\ delivered.output = <<Plain(0)>>
    /\ delivered.missing = {1}

\* C13: the blob the direct receiver delivers at file-end holds every chunk
\* of the file, in send order, when no decryption failed.
C13_DirectBlobComplete ==
    (~rcvRelay /\ delivered # Nil /\ ~decryptFailed) =>
       delivered.output = [k \in 1..rcvTotal |-> Plain(k - 1)]

\* C19: once the decryption of a chunk failed while the transfer was in
\* progress, no file is delivered for it.
C19_DecryptFailureAborts ==
    decryptFailed => delivered = Nil

\* C34: on the relay path no chunk index is stored and queued for the batch
\* acknowledgement a second time, and every chunk of a delivered file has
\* been acknowledged.
C34_StoredAckedOnceByBatch ==
    rcvRelay =>
       /\ ~placedTwice
       /\ delivered # Nil =>
             \A k \in 1..Len(delivered.output) : delivered.output[k].chunk \in rcvAcks

(***************************************************************************)
(* Claims about sending a file.                                            *)
(***************************************************************************)
\* the positions on the wire that hold a frame of this type
FramesOf(type) == {k \in 1..Len(wire) : wire[k].type = type}

\* C11: when the relay sender has emitted file-end, every chunk it sent
\* that never reached the peer was retransmitted with retry = true.
C11_LostChunkRetransmitted ==
    (viaRelay /\ FramesOf("file-end") # {}) =>
       \A i \in 0..(sendIndex - 1) :
          i \notin arrived =>
             \E k \in FramesOf("chunk") : wire[k].index = i /\ wire[k].retry

\* the frames that stream the file
StreamFrames == FramesOf("file-start") \cup FramesOf("chunk") \cup FramesOf("file-end")

\* C21: a sender whose user cancelled while the file request was waiting
\* for its answer streams nothing of the file.
C21_NoStreamAfterCancelledRequest ==
    (cancelAt # -1 /\ StreamFrames \cap 1..cancelAt = {}) => StreamFrames = {}

\* C16: after the user cancelled, the sender puts at most one further chunk
\* on the wire, no file-end, and does not start streaming.
C16_CancelStopsSender ==
    cancelAt # -1 =>
       /\ Cardinality({k \in FramesOf("chunk") : k > cancelAt}) <= 1
       /\ \A k \in FramesOf("file-end") : k < cancelAt
       /\ \A k \in FramesOf("file-start") : k < cancelAt

\* ceil(S / ChunkSize): the least n with n * ChunkSize >= S
CeilOf(size) == CHOOSE n \in 0..size : n * CHUNK_SIZE >= size
                                       /\ \A m \in 0..(n - 1) : m * CHUNK_SIZE < size

\* the first transmissions of chunks on the wire, in order
FirstTransmissions == SelectSeq(wire, LAMBDA f : f.type = "chunk" /\ ~f.retry)

PendingIndices(ts) == {ts.pendingChunks[k].index : k \in 1..Len(ts.pendingChunks)}

\* C30: a relay sender never has more than WINDOW_SIZE chunks pending; a
\* chunk joins the pending ones only while fewer than WINDOW_SIZE are
\* pending; and a chunk leaves them only by an ack frame that names it.
C30_WindowRespected ==
    /\ [](Len(transferState.pendingChunks) <= WINDOW_SIZE)
    /\ [][PendingIndices(transferState') \ PendingIndices(transferState) # {} =>
            Len(transferState.pendingChunks) < WINDOW_SIZE]_vars
    /\ [][\A i \in PendingIndices(transferState) \ PendingIndices(transferState') :
            /\ HandleRelayAck
            /\ i \in transferState'.ackedChunks \ transferState.ackedChunks]_vars

\* the window is full and the sender waits with a chunk still to send
C30_Witness ==
    /\ viaRelay /\ sender = "windowWait"
    /\ Len(transferState.pendingChunks) = WINDOW_SIZE
    /\ sendOffset < fileSize

\* how many times chunk i was put on the wire
Transmissions(i) ==
    Cardinality({k \in FramesOf("chunk") : wire[k].index = i})

\* C31: no chunk is put on the wire more than MAX_CHUNK_RETRIES + 1 times,
\* and a relay sender that emitted file-end left no chunk unacknowledged
\* whose retransmissions were used up: it failed instead, the entry of
\* activeTransfers removed.
C31_RetriesBoundedAndFatal ==
    viaRelay =>
       /\ \A i \in 0..(sendIndex - 1) : Transmissions(i) <= MAX_CHUNK_RETRIES + 1
       /\ sender = "failed" => ~registered
       /\ FramesOf("file-end") # {} =>
             \A k \in 1..Len(transferState.pendingChunks) :
                transferState.pendingChunks[k].retries < MAX_CHUNK_RETRIES

\* C32: a chunk is retransmitted only when ACK_TIMEOUT has elapsed since its
\* own sentAt: no frame with retry set is put on the wire for a chunk that
\* was sent less than ACK_TIMEOUT ago.
C32_RetransmitOnlyExpired ==
    [][\A k \in (Len(wire) + 1)..Len(wire') :
          (wire'[k].type = "chunk" /\ wire'[k].retry)
             => wire'[k].index \notin recentlySent]_vars

\* C35: the wait for the file-response is settled by one call with one
\* outcome; the entry of pendingFileRequests exists and its timer is armed
\* exactly while the sender waits, and after any outcome but an acceptance
\* the sender has failed and streams nothing.
C35_RequestSettlesOnce ==
    /\ Len(requestOutcomes) <= 1
    /\ pendingFileRequests <=> (sender = "requesting")
    /\ requestTimer <=> pendingFileRequests
    /\ sender = "requesting" => requestOutcomes = <<>>
    /\ sender \notin {"idle", "requesting"} => Len(requestOutcomes) = 1
    /\ (requestOutcomes # <<>> /\ requestOutcomes[1] # "accepted") =>
          sender = "failed" /\ StreamFrames = {}

\* the peer's file-cancel ended the wait
C35_Witness ==
    /\ requestOutcomes = <<"cancelled">>
    /\ sender = "failed"
    /\ ~pendingFileRequests /\ ~requestTimer

\* C33: a relay send of a file with content whose peer acknowledged nothing
\* does not complete: it puts no file-end on the wire and does not return
\* normally.
C33_UnacknowledgedSendFails ==
    (viaRelay /\ fileSize > 0 /\ transferState.ackedChunks = {}) =>
       /\ FramesOf("file-end") = {}
       /\ sender # "done"

\* C40: a relay send returns normally, its file-end on the wire, only if
\* every chunk index of the file has been acknowledged.
C40_DoneOnlyWhenAllAcked ==
    (viaRelay /\ sender = "done") =>
       transferState.ackedChunks = 0..(totalChunksOf(fileSize, CHUNK_SIZE) - 1)

(***************************************************************************)
(* Claims about the connection racing.                                     *)
(***************************************************************************)
\* C9: every ensureConnection call that has returned did so with the peer
\* in relay mode or with an open direct channel and a shared key.
C9_ReturnsConnected == \A c \in Calls : call[c] = "returned" => returnedOk[c]

\* gathering is complete and yielded relay candidates only
OnlyRelayGathered == gatheringComplete /\ candidateTypes = {"relay"}

\* the fallbackTimer of the race of call c fires on this step
FallbackFires(c) == fallbackTimer[c] = "armed" /\ fallbackTimer'[c] = "fired"

\* C10 as stated: when the fallbackTimer of a race fires after gathering
\* completed with relay candidates only, the engine is in relay mode already.
C10_CommitsBeforeTimer ==
    [][\A c \in Calls : (FallbackFires(c) /\ OnlyRelayGathered) => relayMode]_vars

\* C10: the completion of gathering commits nothing, and the fallbackTimer
\* of an unresolved race, firing after gathering completed with relay
\* candidates only, commits to relay and settles the race.
C10_CommitsAtTimer ==
    [][/\ (gatheringComplete' /\ ~gatheringComplete) =>
             (/\ relayMode' = relayMode
              /\ racingState' = racingState
              /\ racePromise' = racePromise)
       /\ \A c \in Calls :
             (FallbackFires(c) /\ OnlyRelayGathered /\ ~racingState[c].resolved) =>
                (relayMode' /\ racePromise'[c] = "relay")]_vars

\* the fallbackTimer settled a race with relay after gathering completed
\* with relay candidates only, while the ultimateTimer is still armed
C10_Witness ==
    \E c \in Calls :
       /\ OnlyRelayGathered
       /\ fallbackTimer[c] = "fired" /\ ultimateTimer[c] = "armed"
       /\ attempt[c] = "waiting"
       /\ racePromise[c] = "relay" /\ call[c] = "returned"
       /\ relayMode

\* C24: when the fallbackTimer of an unresolved race fires with the peer not
\* yet in relay mode, the engine commits to relay exactly when no host,
\* srflx or prflx candidate was gathered, whatever the ICE connection state.
C24_CommitsIffNoDirectCandidate ==
    [][\A c \in Calls :
         (FallbackFires(c) /\ ~racingState[c].resolved /\ ~relayMode) =>
            (relayMode' <=> "host" \notin candidateTypes)]_vars

(***************************************************************************)
(* Claims about the negotiation.                                           *)
(***************************************************************************)
\* nothing is in flight and no createOffer or handleOffer call is under way
Quiescent ==
    \A p \in Devices : net[p] = <<>> /\ offering[p] = "idle" /\ ~answering[p]

\* C8: after both devices sent an offer while both were in have-local-offer
\* with makingOffer false, the negotiation settles with exactly one
\* established offer/answer exchange between them.
C8_GlareGivesOneChannel ==
    (glare /\ Quiescent) =>
       Cardinality({x \in Devices : Established(x, Other(x))}) = 1

\* C23: an offer that reaches the impolite device while it is making an
\* offer, or while its signaling state is not stable (have-local-offer
\* included), sets ignoreOffer and leaves its descriptions unchanged.
C23_ImpoliteIgnoresCollision ==
    [][\A p \in Devices :
         (/\ HandleOffer(p)
          /\ ~isPolite(p)
          /\ connections[p] # Nil
          /\ (makingOffer[p] \/ connections[p].signalingState # "stable"))
         => (ignoreOffer'[p] /\ connections'[p] = connections[p])]_vars

(***************************************************************************)
(* Claims about the transfer protocol.                                     *)
(***************************************************************************)
\* C1: whatever path sendText takes, the frames the hub receives do not
\* depend on the text: they are the frames it would have received had the
\* text been another one.
C1_HubIndependentOfText == HubView(emit) = hubAlt

\* C2: a file is handed to onFileReceived, and a chunk is stored, only for a
\* fileId the user accepted a file-request for.
C2_OnlyAcceptedDelivered ==
    \A e \in emit :
       (e.to = "observer" /\ e.type \in {"file-received", "progress"}) =>
          e.data.fileId \in accepted

\* C17: no file is handed to onFileReceived for a fileId whose incoming
\* transfer a file-cancel removed since it was last accepted.
C17_CancelledNeverDelivered ==
    \A e \in emit :
       (e.to = "observer" /\ e.type = "file-received") =>
          e.data.fileId \notin cancelledIds

(***************************************************************************)
(* Claims about the signaling hub.                                         *)
(***************************************************************************)
\* sessions the hub closed with 4001 or 4002 at the upgrade
Rejected == {s \in Sess : closeCode[s] # 0}

\* C5: once the room's password hash is set it never changes, and no later
\* set-password request is answered with success = true, also when several
\* set-password requests are in flight at once.
C5_HashImmutable ==
    [][passwordHash # None =>
         (passwordHash' = passwordHash /\ Response(TRUE) \notin out')]_vars

\* C6: an upgrade to a room with a stored hash gets PASSWORD_REQUIRED / 4001
\* when it supplies no hash and PASSWORD_INCORRECT / 4002 when it supplies
\* another hash; a session rejected this way is never issued a peer id, never
\* listed in a joined frame, and never announced by a peer-joined frame.
C6_RejectedNeverMember ==
    /\ \A f \in out :
         (f.kind = "upgrade" /\ f.stored # None) =>
            /\ f.provided = None =>
                 (f.error = "PASSWORD_REQUIRED" /\ f.code = CloseRequired)
            /\ f.provided \notin {None, f.stored} =>
                 (f.error = "PASSWORD_INCORRECT" /\ f.code = CloseIncorrect)
    /\ \A s \in Rejected :
         /\ attach[s] = None
         /\ \A f \in out :
              /\ f.kind = "joined" => (f.target # s /\ attach[s] \notin f.peers)
              /\ f.kind = "peer-joined" => f.peer # attach[s]

\* C7: a forwarded frame is delivered only to the session whose attached peer
\* id equals the frame's to field, its from field is the sender's attached
\* peer id, and a frame from a session that has not joined is not forwarded.
C7_ForwardRouting ==
    \A f \in out :
       f.kind = "forward" =>
          /\ f.targetId = f.to
          /\ f.from = f.senderId
          /\ f.senderId # None

\* a joined session's frame was delivered to another joined session while a
\* third party's id was free to be named in to
C7_Witness ==
    \E f \in out :
       /\ f.kind = "forward"
       /\ f.sender # f.target
       /\ f.handler = "handleRelayData"

(***************************************************************************)
(* Claims about the crypto envelope.                                       *)
(***************************************************************************)
\* both sides hold the same peer key and, where both have a room key, the
\* same room key
SameKeys ==
    /\ sndPeerKey # None
    /\ sndPeerKey = rcvPeerKey
    /\ (sndRoomKey # None /\ rcvRoomKey # None) => sndRoomKey = rcvRoomKey

C4_RoomKeyMissing ==
    (encPc = "received" /\ SameKeys) =>
        /\ (encWire[1].b > 0 /\ rcvRoomKey = None) =>
               (~encOut.ok /\ encOut.data = <<>>)
        /\ encWire[1].b = 0 => encOut = Ok(encPlain)

=============================================================================
